---------------------------- MODULE Spec2Model ----------------------------
(***************************************************************************)
(* Model of the buffer-and-index engine of the jim editor.                 *)
(*                                                                         *)
(* Part 1: the storage core (src/src/buffer/mod.rs): a Buffer in rope mode *)
(* or in mapped mode (memory-mapped view + line offset table + LRU line    *)
(* cache + per-line edit overlay), and its save engine: save() captures    *)
(* the content and spawns a background thread that writes a temporary      *)
(* file and renames it over the original; finalize_save() re-maps.         *)
(*                                                                         *)
(* Bytes are one-character strings.  A Rust String / byte slice is a       *)
(* sequence of bytes; Rust indices are 0-based, so Slice(s, a, b) is the   *)
(* Rust range s[a..b].  Option values are sequences of length 0 or 1.      *)
(***************************************************************************)
EXTENDS Integers, Sequences, FiniteSets, TLC

-----------------------------------------------------------------------------
(* Bounds of the model (not program constants).                            *)

\* insert/delete/replace calls in one behaviour
MaxEdits == 3
\* save()/save_as() calls in one behaviour
MaxSaves == 2
\* get_line_cached calls in one behaviour
MaxReads == 3
\* load_file calls in one behaviour, the first one included
MaxLoads == 2
\* calls of the interactive thread in one behaviour, a save counting as SaveCost calls
\* (finalize_save, which the main loop calls every frame, is not counted)
MaxCalls == 5
SaveCost == 2

(* Program constants, scaled down so that both sides of each comparison    *)
(* are reachable with files of a few bytes.                                *)

\* load_file: files below this size are loaded in rope mode (10 MiB in the source)
RopeThreshold == 3
\* delete: a multi-line delete escalates when edits.len() > this (100 in the source)
OverlayEscalation == 1
\* Buffer::new: max_cache_lines (1000 in the source)
MaxCacheLines == 2
\* save: capacity of the BufWriter, bytes handed to the file per write (8 MiB in the source)
WriterCapacity == 2

-----------------------------------------------------------------------------
(* Option, slices, saturating arithmetic.                                  *)

None == << >>
Some(x) == << x >>
IsSome(o) == Len(o) = 1
Unwrap(o) == o[1]

NL == "\n"
\* the byte a hole of a sparse file reads as
NUL == "0"

Min(a, b) == IF a <= b THEN a ELSE b
Max(a, b) == IF a >= b THEN a ELSE b
\* variant: plain subtraction
SatSub_Plain(a, b) == a - b
SatSub(a, b) == IF a >= b THEN a - b ELSE 0

\* the Rust range s[a..b] of a 0-indexed sequence
Slice(s, a, b) == SubSeq(s, a + 1, b)

\* String::insert_str(pos, text)
InsertStr(s, pos, text) == Slice(s, 0, pos) \o text \o Slice(s, pos, Len(s))
\* String::drain(a..b) / Rope::remove(a..b)
Drain(s, a, b) == Slice(s, 0, a) \o Slice(s, b, Len(s))

RECURSIVE Concat(_)
Concat(ss) == IF ss = << >> THEN << >> ELSE Head(ss) \o Concat(Tail(ss))

\* a map (HashMap) is a function on a finite set of keys
EmptyMap == [k \in {} |-> << >>]
MapPut(m, k, v) == [x \in DOMAIN m \cup {k} |-> IF x = k THEN v ELSE m[x]]
MapRemove(m, k) == [x \in DOMAIN m \ {k} |-> m[x]]

\* String::from_utf8_lossy: every byte of the model's alphabet is ASCII and
\* decodes to itself; a byte that is no valid UTF-8 decodes to U+FFFD (3 bytes)
Utf8Byte(c) == IF c \in {"a", "b", "x", NL, NUL} THEN << c >> ELSE << "ef", "bf", "bd" >>
from_utf8_lossy(bytes) == Concat([i \in 1..Len(bytes) |-> Utf8Byte(bytes[i])])

-----------------------------------------------------------------------------
(* Paths and the file system.                                              *)

\* PathBuf: file stem and extension
DataJson == [stem |-> "data", ext |-> "json"]
CopyJson == [stem |-> "copy", ext |-> "json"]
\* Path::with_extension
with_extension(p, e) == [p EXCEPT !.ext = e]
\* the paths a caller passes to load_file / save_as
UserPaths == {DataJson, CopyJson}
AllPaths == UserPaths \cup {with_extension(p, "tmp") : p \in UserPaths}

\* the files load_file is first called on
InitialFiles ==
    { << "a", NL >>,
      << "a", "b", "a" >>,
      << "a", NL, "b" >>,
      << "a", NL, NL, NL >> }

\* the texts insert and replace are called with
Texts == { << "x" >>, << NL >> }

VARIABLES
    buf,                \* the Buffer's fields (src/src/buffer/mod.rs:31-62)
    save_progress,      \* Arc<AtomicU32>, shared with the save threads
    save_in_progress,   \* Arc<AtomicBool>, shared with the save threads
    fs,                 \* the directory: path -> Option<inode>
    inodes,             \* inode -> bytes of the file
    tasks,              \* the background save threads spawned so far
    last,               \* ghost: the last call of the interactive thread
    rt,                 \* ghost: edits; save; finalize_save; load_file in a row
    budget,             \* ghost: calls made so far, per kind
    app,                \* the text handed to the tokenizer, App.structural_index
                        \* (src/src/main.rs:108-151), ghost: the last index query
    pt,                 \* the ParserThread: its two channels, the worker thread
                        \* and its owner (src/src/parser/parser_thread.rs)
    lru,                \* ghost: the lines get_line_cached looked up in the line
                        \* cache, hits and misses, in the order of the calls
    undo_stack,         \* the UndoStack (src/src/edit/undo.rs); ghost: the call
                        \* made last and the content around each edit
    editor              \* App.should_quit and whether the process has ended
                        \* (src/src/main.rs:975-1038); ghost: the buffer at ":wq"

vars == << buf, save_progress, save_in_progress, fs, inodes, tasks, last, rt, budget, app, pt, lru,
          undo_stack, editor >>

\* the bytes of the file at a path (None when no such file)
FileAt(p) == IF IsSome(fs[p]) THEN Some(inodes[Unwrap(fs[p])]) ELSE None


-----------------------------------------------------------------------------
(* The line index and the rope queries.                                    *)

\* build_line_index: 0, then the offset after each newline byte
RECURSIVE ScanNewlines(_, _, _)
ScanNewlines(bytes, i, offsets) ==
    IF i >= Len(bytes) THEN offsets
    ELSE ScanNewlines(bytes, i + 1,
                      IF bytes[i + 1] = NL THEN Append(offsets, i + 1) ELSE offsets)

build_line_index(bytes) == ScanNewlines(bytes, 0, << 0 >>)

\* ropey: Rope::len_lines, line_to_byte, byte_to_line, line (line breaks are
\* the newline bytes of the model's alphabet; the last line may be empty)
RopeLenLines(r) == Len(build_line_index(r))
RopeLineToByte(r, line) == build_line_index(r)[line + 1]
RopeByteToLine(r, off) == Cardinality({i \in 1..off : r[i] = NL})
RopeLine(r, i) ==
    Slice(r, RopeLineToByte(r, i),
          IF i + 1 < RopeLenLines(r) THEN RopeLineToByte(r, i + 1) ELSE Len(r))

\* the bytes of the mapped view: the mapped inode, in the length it had when mapped
MmapLen(b) == Unwrap(b.mmap).len
MmapBytes(b) == Slice(inodes[Unwrap(b.mmap).ino], 0, MmapLen(b))

\* slice::binary_search on the strictly increasing line_offsets:
\* Ok(i) when found at i, Err(i) with i the number of smaller entries
BinarySearch(offsets, x) ==
    IF \E i \in 1..Len(offsets) : offsets[i] = x
    THEN [found |-> TRUE, idx |-> (CHOOSE i \in 1..Len(offsets) : offsets[i] = x) - 1]
    ELSE [found |-> FALSE, idx |-> Cardinality({i \in 1..Len(offsets) : offsets[i] < x})]

line_count(b) ==
    IF b.use_rope
    THEN IF IsSome(b.rope) THEN RopeLenLines(Unwrap(b.rope)) ELSE 0
    ELSE SatSub(Len(b.line_offsets), 1)

len_bytes(b) == IF IsSome(b.rope) THEN Len(Unwrap(b.rope)) ELSE b.file_size

byte_offset_to_line(b, byte_offset) ==
    IF IsSome(b.rope)
    THEN RopeByteToLine(Unwrap(b.rope), Min(byte_offset, Len(Unwrap(b.rope))))
    ELSE LET r == BinarySearch(b.line_offsets, byte_offset)
         IN  IF r.found THEN r.idx ELSE SatSub(r.idx, 1)

\* a variant of line_to_byte_offset that reads the offset table one entry too far:
\* what C14 rules out
line_to_byte_offset_next(b, line) ==
    IF IsSome(b.rope)
    THEN IF line >= RopeLenLines(Unwrap(b.rope)) THEN Len(Unwrap(b.rope))
         ELSE RopeLineToByte(Unwrap(b.rope), line)
    ELSE IF line + 1 < Len(b.line_offsets) THEN b.line_offsets[line + 2] ELSE b.file_size

line_to_byte_offset(b, line) ==
    IF IsSome(b.rope)
    THEN IF line >= RopeLenLines(Unwrap(b.rope)) THEN Len(Unwrap(b.rope))
         ELSE RopeLineToByte(Unwrap(b.rope), line)
    ELSE IF line < Len(b.line_offsets) THEN b.line_offsets[line + 1] ELSE b.file_size

\* the byte range get_line / read_line_lazy read from the mapped view
LineStart(b, line_idx) == b.line_offsets[line_idx + 1]
LineEnd(b, line_idx) ==
    IF line_idx + 1 < Len(b.line_offsets) THEN b.line_offsets[line_idx + 2] ELSE MmapLen(b)

\* get_line reaches &mmap[start..end] with a range the view does not hold: a panic
GetLinePanics(b, line_idx) ==
    /\ ~(b.use_rope /\ IsSome(b.rope))
    /\ line_idx \notin DOMAIN b.edits
    /\ line_idx \notin DOMAIN b.line_cache
    /\ IsSome(b.mmap)
    /\ line_idx < Len(b.line_offsets)
    /\ \/ LineStart(b, line_idx) > LineEnd(b, line_idx)
       \/ LineEnd(b, line_idx) > MmapLen(b)

get_line(b, line_idx) ==
    IF b.use_rope /\ IsSome(b.rope)
    THEN IF line_idx >= RopeLenLines(Unwrap(b.rope)) THEN << >>
         ELSE RopeLine(Unwrap(b.rope), line_idx)
    ELSE IF line_idx \in DOMAIN b.edits THEN b.edits[line_idx]
    ELSE IF line_idx \in DOMAIN b.line_cache THEN b.line_cache[line_idx]
    ELSE IF IsSome(b.mmap) /\ line_idx < Len(b.line_offsets)
         THEN from_utf8_lossy(Slice(MmapBytes(b), LineStart(b, line_idx), LineEnd(b, line_idx)))
         ELSE << >>

\* a variant of retain that removes nothing (a cache hit then pushes the index
\* a second time): what C15 rules out
Retain_Nothing(s, v) == s

\* Vec::retain(|x| x != v)
Retain(s, v) == SelectSeq(s, LAMBDA x : x # v)

\* a variant of the eviction loop that drops the newest entry: what C36 rules out
Evict_Newest(b) ==
    IF Len(b.cache_order) > b.max_cache_lines
    THEN [b EXCEPT !.cache_order = SubSeq(@, 1, Len(@) - 1),
                   !.line_cache = MapRemove(@, b.cache_order[Len(b.cache_order)])]
    ELSE b

\* the eviction loop of read_line_lazy
RECURSIVE Evict(_)
Evict(b) ==
    IF Len(b.cache_order) > b.max_cache_lines
    THEN Evict([b EXCEPT !.cache_order = Tail(@),
                         !.line_cache = MapRemove(@, Head(b.cache_order))])
    ELSE b

\* read_line_lazy: the buffer afterwards and the Option<String> returned
ReadLinePanics(b, line_idx) ==
    /\ line_idx \notin DOMAIN b.edits
    /\ line_idx \notin DOMAIN b.line_cache
    /\ IsSome(b.mmap)
    /\ line_idx < Len(b.line_offsets)
    /\ \/ LineStart(b, line_idx) > LineEnd(b, line_idx)
       \/ LineEnd(b, line_idx) > MmapLen(b)

read_line_lazy(b, line_idx) ==
    IF line_idx \in DOMAIN b.edits
    THEN [b |-> b, ret |-> Some(b.edits[line_idx])]
    ELSE IF line_idx \in DOMAIN b.line_cache
    THEN [b   |-> [b EXCEPT !.cache_order = Append(Retain(@, line_idx), line_idx)],
          ret |-> Some(b.line_cache[line_idx])]
    ELSE IF ~IsSome(b.mmap) \/ line_idx >= Len(b.line_offsets)
    THEN [b |-> b, ret |-> None]
    ELSE LET line == from_utf8_lossy(
                         Slice(MmapBytes(b), LineStart(b, line_idx), LineEnd(b, line_idx)))
         IN  [b   |-> Evict([b EXCEPT !.line_cache = MapPut(@, line_idx, line),
                                      !.cache_order = Append(@, line_idx)]),
              ret |-> Some(line)]

\* get_line_cached: the buffer afterwards and the String returned
get_line_cached(b, line_idx) ==
    IF b.use_rope THEN [b |-> b, ret |-> get_line(b, line_idx)]
    ELSE LET r == read_line_lazy(b, line_idx)
         IN  [b |-> r.b, ret |-> IF IsSome(r.ret) THEN Unwrap(r.ret) ELSE << >>]

get_visible_lines(b, start_line, count) ==
    Concat([i \in 1..Min(count, SatSub(line_count(b), start_line))
                |-> get_line(b, start_line + i - 1)])

\* some line of the range makes get_line panic
VisiblePanics(b, start_line, count) ==
    \E i \in 1..Min(count, SatSub(line_count(b), start_line)) :
        GetLinePanics(b, start_line + i - 1)

is_modified(b) == b.modified

\* slice(range): the bytes of the rope, else of the mapped view, both ends clamped
slice(b, range_start, range_end) ==
    IF IsSome(b.rope)
    THEN LET start == Min(range_start, Len(Unwrap(b.rope)))
             end   == Min(range_end, Len(Unwrap(b.rope)))
         IN  IF start >= end THEN << >> ELSE Slice(Unwrap(b.rope), start, end)
    ELSE IF IsSome(b.mmap)
    THEN LET start == Min(range_start, MmapLen(b))
             end   == Min(range_end, MmapLen(b))
         IN  IF start >= end THEN << >> ELSE from_utf8_lossy(Slice(MmapBytes(b), start, end))
    ELSE << >>

-----------------------------------------------------------------------------
(* Mutation.  Each operator gives the buffer after the call and whether    *)
(* the call returned Ok; a call that panics sets the ghost field panic.    *)

Panicked(b) == [b |-> [b EXCEPT !.panic = TRUE], ok |-> FALSE]

\* insert, the branch for rope mode (lines 367-371)
InsertRope(b, offset, text) ==
    IF ~IsSome(b.rope) THEN [b |-> b, ok |-> FALSE]
    ELSE LET rope == Unwrap(b.rope)
             off  == Min(offset, Len(rope))
         IN  [b  |-> [b EXCEPT !.rope = Some(InsertStr(rope, off, text)),
                               !.modified = TRUE],
              ok |-> TRUE]

\* insert, the branch for mapped mode (lines 372-389)
InsertOverlay(b, offset, text) ==
    LET line_num == byte_offset_to_line(b, offset)
    IN  IF line_num < line_count(b)
        THEN IF GetLinePanics(b, line_num) THEN Panicked(b)
             ELSE LET line_content == get_line(b, line_num)
                      line_start   == line_to_byte_offset(b, line_num)
                      pos_in_line  == SatSub(offset, line_start)
                  IN  IF pos_in_line <= Len(line_content)
                      THEN [b  |-> [b EXCEPT !.edits = MapPut(@, line_num,
                                                 InsertStr(line_content, pos_in_line, text)),
                                             !.modified = TRUE],
                            ok |-> TRUE]
                      ELSE [b |-> [b EXCEPT !.modified = TRUE], ok |-> TRUE]
        ELSE [b |-> [b EXCEPT !.modified = TRUE], ok |-> TRUE]

insert(b, offset, text) ==
    IF b.use_rope THEN InsertRope(b, offset, text) ELSE InsertOverlay(b, offset, text)

\* delete, the branch for rope mode (lines 401-406)
DeleteRope(b, start, end) ==
    IF ~IsSome(b.rope) THEN [b |-> b, ok |-> FALSE]
    ELSE LET rope == Unwrap(b.rope)
             s    == Min(start, Len(rope))
             e    == Min(end, Len(rope))
         IN  [b  |-> [b EXCEPT !.rope = Some(Drain(rope, s, e)), !.modified = TRUE],
              ok |-> TRUE]

\* delete in mapped mode, start and end on one line (lines 413-425)
DeleteSingleLine(b, start, end, start_line) ==
    IF GetLinePanics(b, start_line) THEN Panicked(b)
    ELSE LET line_content == get_line(b, start_line)
             line_start   == line_to_byte_offset(b, start_line)
             pos_start    == SatSub(start, line_start)
             pos_end      == SatSub(end, line_start)
         IN  IF pos_start < Len(line_content)
             THEN [b  |-> [b EXCEPT !.edits = MapPut(@, start_line,
                                        Drain(line_content, pos_start,
                                              Min(pos_end, Len(line_content)))),
                                    !.modified = TRUE],
                   ok |-> TRUE]
             ELSE [b |-> [b EXCEPT !.modified = TRUE], ok |-> TRUE]

\* the condition under which a multi-line delete converts to rope mode (line 427)
TooManyEdits(b) == Cardinality(DOMAIN b.edits) > OverlayEscalation

\* a variant in which the multi-line delete that changes nothing does not set the
\* modified flag: what C10 rules out
DeleteMultiLine_Unflagged(b, start, end) ==
    IF TooManyEdits(b) /\ IsSome(b.mmap)
    THEN DeleteRope([b EXCEPT !.rope = Some(MmapBytes(b)), !.use_rope = TRUE], start, end)
    ELSE [b |-> b, ok |-> TRUE]

\* delete in mapped mode, start and end on different lines (lines 426-433)
DeleteMultiLine(b, start, end) ==
    IF TooManyEdits(b) /\ IsSome(b.mmap)
    THEN DeleteRope([b EXCEPT !.rope = Some(MmapBytes(b)), !.use_rope = TRUE], start, end)
    ELSE [b |-> [b EXCEPT !.modified = TRUE], ok |-> TRUE]

delete(b, start, end) ==
    IF start >= end THEN [b |-> b, ok |-> TRUE]
    ELSE IF b.use_rope THEN DeleteRope(b, start, end)
    ELSE LET start_line == byte_offset_to_line(b, start)
             end_line   == byte_offset_to_line(b, end)
         IN  IF start_line = end_line
             THEN DeleteSingleLine(b, start, end, start_line)
             ELSE DeleteMultiLine(b, start, end)

\* replace: delete(start, end)? then insert(start, new_text)?
replace(b, start, end, new_text) ==
    LET d == delete(b, start, end)
    IN  IF ~d.ok THEN d ELSE insert(d.b, start, new_text)

-----------------------------------------------------------------------------
(* The save engine.                                                        *)

\* save, lines 511-521: the content built for a mapped buffer with overlay entries
needs_overlay(b) == ~b.use_rope /\ DOMAIN b.edits # {}
content_source(b) ==
    IF needs_overlay(b)
    THEN Some(Concat([i \in 1..line_count(b) |-> get_line(b, i - 1)]))
    ELSE None

\* what the spawned closure owns: content_source, else the cloned rope, else nothing
Captured(b) ==
    IF IsSome(content_source(b)) THEN [kind |-> "overlay", content |-> Unwrap(content_source(b))]
    ELSE IF IsSome(b.rope) THEN [kind |-> "rope", content |-> Unwrap(b.rope)]
    ELSE [kind |-> "none", content |-> << >>]

\* the temporary path of the closure (line 539)
TempPath(path) == with_extension(path, "tmp")

\* a write of data at position pos of a file: a position past the end leaves a hole
RECURSIVE Nuls(_)
Nuls(n) == IF n <= 0 THEN << >> ELSE << NUL >> \o Nuls(n - 1)
WriteAt(bytes, pos, data) ==
    Slice(bytes, 0, Min(pos, Len(bytes))) \o Nuls(pos - Len(bytes)) \o data
        \o Slice(bytes, Min(pos + Len(data), Len(bytes)), Len(bytes))

\* the progress stored after a rope chunk (lines 559-560)
ChunkProgress(written, total_bytes) == Min(20 + ((written * 70) \div total_bytes), 90)

\* a variant in which the closure reads the buffer as it is when the closure writes
\* (no capture at save()): what C4 rules out
TaskBytes_Live(t) == Captured(buf).content

\* the bytes the closure writes, from its own copy
TaskBytes(t) == t.content

NewTask(b, path) ==
    [ pc       |-> "start",
      path     |-> path,
      kind     |-> Captured(b).kind,
      content  |-> Captured(b).content,
      written  |-> 0,            \* bytes handed to the BufWriter
      pos      |-> 0,            \* position of the File
      buffered |-> << >>,        \* bytes the BufWriter holds
      fd       |-> None,         \* the inode File::create opened
      result   |-> "running",
      \* ghosts: what the buffer showed and the file held when save() was called
      shown    |-> get_visible_lines(b, 0, line_count(b)),
      before   |-> FileAt(path),
      wrote    |-> << >>,        \* ghost: the bytes handed to the writer so far
      stores   |-> << >>,        \* ghost: the values the closure stored in progress
      \* ghost: no other save thread was running when save() was called
      solo     |-> \A j \in 1..Len(tasks) : tasks[j].pc = "done" ]

\* save(): the buffer afterwards; the closure is spawned by the action
SavePanics(b) == needs_overlay(b) /\ VisiblePanics(b, 0, line_count(b))
save(b) == [b EXCEPT !.save_pending = TRUE]

\* a variant of the guard that does not read the in-progress flag: what C6 rules out
FinalizeGuard_Pending(b) == b.save_pending

\* finalize_save takes effect (line 703)
FinalizeGuard(b) == b.save_pending /\ ~save_in_progress
\* the fresh mapping of the file at the path (lines 706-708)
MapFile(path) == [ino |-> Unwrap(fs[path]), len |-> Len(inodes[Unwrap(fs[path])])]
\* a variant of finalize_save that goes back to the mapped mode: what C9 rules out
finalize_save_mapped(b) ==
    [b EXCEPT !.mmap = Some(MapFile(Unwrap(b.path))),
              !.save_pending = FALSE,
              !.modified = FALSE,
              !.use_rope = FALSE]

finalize_save(b) ==
    [b EXCEPT !.mmap = Some(MapFile(Unwrap(b.path))),
              !.save_pending = FALSE,
              !.modified = FALSE]

\* Buffer::new
new ==
    [ mmap |-> None, file_size |-> 0, line_offsets |-> << >>,
      line_cache |-> EmptyMap, cache_order |-> << >>, max_cache_lines |-> MaxCacheLines,
      edits |-> EmptyMap, rope |-> None, use_rope |-> FALSE,
      save_pending |-> FALSE, path |-> None, modified |-> FALSE,
      panic |-> FALSE ]

\* load_file on a file that can be opened (lines 91-129)
load_file(b, path) ==
    LET mmap      == MapFile(path)
        bytes     == inodes[mmap.ino]
        file_size == mmap.len
        use_rope  == file_size < RopeThreshold
    IN  [ mmap |-> Some(mmap), file_size |-> file_size,
          line_offsets |-> IF use_rope THEN << >> ELSE build_line_index(bytes),
          line_cache |-> EmptyMap, cache_order |-> << >>,
          max_cache_lines |-> b.max_cache_lines,
          edits |-> EmptyMap,
          rope |-> IF use_rope THEN Some(bytes) ELSE None,
          use_rope |-> use_rope,
          save_pending |-> FALSE, path |-> Some(path), modified |-> FALSE,
          panic |-> b.panic ]

-----------------------------------------------------------------------------
(* The interactive thread.  It calls the buffer's operations in any order; *)
(* a panic ends the process.  Mutations, reads and saves are driven on a   *)
(* loaded buffer.                                                          *)

Call(op, ok) == [op |-> op, ok |-> ok]

Alive == ~buf.panic
Loaded == Alive /\ IsSome(buf.path)

\* the offsets the operations are called with: every offset of the content, and one past
Offsets == 0..(Max(len_bytes(buf), buf.file_size) + 1)
\* the lines read: every line the index knows, and one past
Lines == 0..(Max(line_count(buf), Len(buf.line_offsets)))

Caps == [edits |-> MaxEdits, saves |-> MaxSaves, reads |-> MaxReads, loads |-> MaxLoads]
Cost(kind) == IF kind = "saves" THEN SaveCost ELSE 1
Calls == budget.edits + budget.reads + budget.loads + SaveCost * budget.saves
Can(kind) == budget[kind] < Caps[kind] /\ Calls + Cost(kind) <= MaxCalls
Spend(kind) == budget' = [budget EXCEPT ![kind] = @ + 1]

\* ghost: the round trip "save, task ends Ok, finalize_save, load_file" of task n
Idle == [phase |-> "idle", task |-> 0]
RtAfterFinalize ==
    IF rt.phase = "saved" /\ tasks[rt.task].pc = "done" /\ tasks[rt.task].result = "ok"
    THEN [rt EXCEPT !.phase = "finalized"] ELSE Idle
RtAfterLoad(path) ==
    IF rt.phase = "finalized" /\ tasks[rt.task].path = path
    THEN [rt EXCEPT !.phase = "reloaded"] ELSE Idle

LoadFile ==
    /\ Alive
    /\ Can("loads")
    /\ \E path \in UserPaths :
        \/ /\ IsSome(fs[path])
           /\ buf' = load_file(buf, path)
           /\ save_progress' = 0
           /\ save_in_progress' = FALSE
           /\ last' = Call("load_file", TRUE)
           /\ rt' = RtAfterLoad(path)
        \/ /\ ~IsSome(fs[path])
           /\ last' = Call("load_file", FALSE)
           /\ UNCHANGED << buf, save_progress, save_in_progress, rt >>
    /\ Spend("loads")
    /\ UNCHANGED << fs, inodes, tasks, app, pt, lru, undo_stack, editor >>

InsertAt(offset, text) ==
    /\ Loaded
    /\ Can("edits")
    /\ LET r == insert(buf, offset, text)
       IN  /\ buf' = r.b
           /\ last' = Call("insert", r.ok)
    /\ rt' = Idle
    /\ Spend("edits")
    /\ UNCHANGED << save_progress, save_in_progress, fs, inodes, tasks, app, pt, lru, undo_stack, editor >>

Insert == \E offset \in Offsets, text \in Texts : InsertAt(offset, text)

DeleteAt(start, end) ==
    /\ Loaded
    /\ Can("edits")
    /\ LET r == delete(buf, start, end)
       IN  /\ buf' = r.b
           /\ last' = Call(IF start < end THEN "delete" ELSE "delete_empty", r.ok)
    /\ rt' = Idle
    /\ Spend("edits")
    /\ UNCHANGED << save_progress, save_in_progress, fs, inodes, tasks, app, pt, lru, undo_stack, editor >>

Delete == \E start \in Offsets, end \in Offsets : DeleteAt(start, end)

ReplaceAt(start, end, text) ==
    /\ Loaded
    /\ Can("edits")
    /\ LET r == replace(buf, start, end, text)
       IN  /\ buf' = r.b
           /\ last' = Call("replace", r.ok)
    /\ rt' = Idle
    /\ Spend("edits")
    /\ UNCHANGED << save_progress, save_in_progress, fs, inodes, tasks, app, pt, lru, undo_stack, editor >>

Replace == \E start \in Offsets, end \in Offsets, text \in Texts : ReplaceAt(start, end, text)

\* ghost: the read is a cache miss on a full cache, so that the eviction loop runs
Evicts(b, line_idx) ==
    /\ ~b.use_rope
    /\ line_idx \notin DOMAIN b.edits
    /\ line_idx \notin DOMAIN b.line_cache
    /\ IsSome(b.mmap)
    /\ line_idx < Len(b.line_offsets)
    /\ ~ReadLinePanics(b, line_idx)
    /\ Len(b.cache_order) >= b.max_cache_lines

GetLineCached ==
    /\ Loaded
    /\ Can("reads")
    /\ \E line_idx \in Lines :
        /\ buf' = IF ~buf.use_rope /\ ReadLinePanics(buf, line_idx)
                  THEN [buf EXCEPT !.panic = TRUE]
                  ELSE get_line_cached(buf, line_idx).b
        /\ last' = Call(IF Evicts(buf, line_idx) THEN "get_line_cached_evict"
                         ELSE "get_line_cached", ~buf'.panic)
    /\ Spend("reads")
    /\ UNCHANGED << save_progress, save_in_progress, fs, inodes, tasks, rt, app, pt, lru, undo_stack, editor >>

\* save() on the buffer b (whose path is set): capture, set the flags, spawn
Spawn(b, op) ==
    IF SavePanics(b)
    THEN /\ buf' = [b EXCEPT !.panic = TRUE]
         /\ last' = Call(op, FALSE)
         /\ UNCHANGED << save_in_progress, tasks, rt >>
    ELSE /\ buf' = save(b)
         /\ save_in_progress' = TRUE
         /\ tasks' = Append(tasks, NewTask(b, Unwrap(b.path)))
         /\ last' = Call(op, TRUE)
         /\ rt' = [phase |-> "saved", task |-> Len(tasks) + 1]

Save ==
    /\ Loaded
    /\ Can("saves")
    /\ Spawn(buf, "save")
    /\ Spend("saves")
    /\ UNCHANGED << save_progress, fs, inodes, app, pt, lru, undo_stack, editor >>

\* save_as(path) with a path other than the current one (save_as with the
\* current path is save)
SaveAs ==
    /\ Loaded
    /\ Can("saves")
    /\ \E path \in UserPaths \ {Unwrap(buf.path)} :
          Spawn([buf EXCEPT !.path = Some(path)], "save_as")
    /\ Spend("saves")
    /\ UNCHANGED << save_progress, fs, inodes, app, pt, lru, undo_stack, editor >>

FinalizeSave ==
    /\ Loaded
    /\ \/ /\ FinalizeGuard(buf)
          /\ IsSome(fs[Unwrap(buf.path)])
          /\ buf' = finalize_save(buf)
          /\ save_progress' = 0
          /\ last' = Call("finalize_save", TRUE)
          /\ rt' = RtAfterFinalize
       \/ /\ FinalizeGuard(buf)
          /\ ~IsSome(fs[Unwrap(buf.path)])
          /\ last' = Call("finalize_save", FALSE)
          /\ UNCHANGED << buf, save_progress, rt >>
       \/ /\ ~FinalizeGuard(buf)
          /\ last' = Call("finalize_save", TRUE)
          /\ UNCHANGED << buf, save_progress, rt >>
    /\ UNCHANGED << save_in_progress, fs, inodes, tasks, budget, app, pt, lru, undo_stack, editor >>

-----------------------------------------------------------------------------
(* The background save threads: one step of the closure of thread i.  A    *)
(* step is one file-system call of the closure together with the stores    *)
(* to the progress counter that precede and follow it in program order.    *)

SetTask(i, t) == tasks' = [tasks EXCEPT ![i] = t]
Running(i, pc) == Alive /\ tasks[i].pc = pc
Temp(i) == TempPath(tasks[i].path)
\* a variant in which a failed closure leaves the progress where it was: what C16 rules out
Failed_NoReset(t) == [t EXCEPT !.pc = "clear", !.result = "err"]
\* the closure returned Err: progress.store(0) (lines 578-580)
Failed(t) == [t EXCEPT !.pc = "clear", !.result = "err", !.stores = Append(@, 0)]
\* the progress counter after a step of thread i: the value the closure stored last
StoreProgress(i) ==
    save_progress' = IF Len(tasks'[i].stores) = Len(tasks[i].stores) THEN save_progress
                     ELSE tasks'[i].stores[Len(tasks'[i].stores)]

\* progress.store(10); File::create(&temp)? truncates the file at temp or creates
\* it; progress.store(20); with nothing captured the closure returns Err
TaskStart(i) ==
    /\ Running(i, "start")
    /\ LET exists == IsSome(fs[Temp(i)])
           fd     == IF exists THEN fs[Temp(i)] ELSE Some(Len(inodes) + 1)
       IN  /\ inodes' = IF exists THEN [inodes EXCEPT ![Unwrap(fd)] = << >>]
                        ELSE Append(inodes, << >>)
           /\ fs' = [fs EXCEPT ![Temp(i)] = fd]
           /\ SetTask(i, IF tasks[i].kind = "none"
                          THEN Failed([tasks[i] EXCEPT !.fd = fd, !.stores = << 10, 20 >>])
                          ELSE [tasks[i] EXCEPT !.fd = fd, !.pc = "write",
                                                !.stores = << 10, 20 >>])
           /\ StoreProgress(i)
    /\ UNCHANGED << buf, save_in_progress, last, rt, budget, app, pt, lru, undo_stack, editor >>

\* progress.store(10); File::create(&temp)? fails
TaskStartFail(i) ==
    /\ Running(i, "start")
    /\ SetTask(i, Failed([tasks[i] EXCEPT !.stores = << 10 >>]))
    /\ StoreProgress(i)
    /\ UNCHANGED << buf, save_in_progress, fs, inodes, last, rt, budget, app, pt, lru, undo_stack, editor >>

\* writer.write_all: a batch of WriterCapacity bytes goes to the file, a shorter
\* rest stays in the BufWriter; then the progress store of the branch
TaskWrite(i) ==
    /\ Running(i, "write")
    /\ LET t      == tasks[i]
           bytes  == TaskBytes(t)
           rest   == Slice(bytes, t.written, Len(bytes))
           data   == Slice(rest, 0, Min(WriterCapacity, Len(rest)))
           direct == Len(data) >= WriterCapacity
           done   == t.written + Len(data) >= Len(bytes)
       IN  /\ inodes' = IF direct
                        THEN [inodes EXCEPT ![Unwrap(t.fd)] = WriteAt(@, t.pos, data)]
                        ELSE inodes
           /\ SetTask(i, [t EXCEPT !.written = @ + Len(data),
                                   !.pos = IF direct THEN @ + Len(data) ELSE @,
                                   !.buffered = IF direct THEN @ ELSE data,
                                   !.wrote = @ \o data,
                                   !.stores =
                                       IF t.kind = "rope"
                                       THEN IF Len(data) = 0 THEN @
                                            ELSE Append(@, ChunkProgress(t.written + Len(data),
                                                                         Len(bytes)))
                                       ELSE IF done THEN Append(@, 90) ELSE @,
                                   !.pc = IF done THEN "flush" ELSE "write"])
           /\ StoreProgress(i)
    /\ UNCHANGED << buf, save_in_progress, fs, last, rt, budget, app, pt, lru, undo_stack, editor >>

\* a write to the file fails
TaskWriteFail(i) ==
    /\ Running(i, "write")
    /\ Len(TaskBytes(tasks[i])) - tasks[i].written >= WriterCapacity
    /\ SetTask(i, Failed(tasks[i]))
    /\ StoreProgress(i)
    /\ UNCHANGED << buf, save_in_progress, fs, inodes, last, rt, budget, app, pt, lru, undo_stack, editor >>

\* writer.flush()?: the bytes the BufWriter holds go to the file; progress.store(90)
TaskFlush(i) ==
    /\ Running(i, "flush")
    /\ LET t == tasks[i]
       IN  /\ inodes' = [inodes EXCEPT ![Unwrap(t.fd)] = WriteAt(@, t.pos, t.buffered)]
           /\ SetTask(i, [t EXCEPT !.pos = @ + Len(t.buffered), !.buffered = << >>,
                                   !.stores = Append(@, 90), !.pc = "rename"])
    /\ StoreProgress(i)
    /\ UNCHANGED << buf, save_in_progress, fs, last, rt, budget, app, pt, lru, undo_stack, editor >>

\* writer.flush()? fails
TaskFlushFail(i) ==
    /\ Running(i, "flush")
    /\ tasks[i].buffered # << >>
    /\ SetTask(i, Failed(tasks[i]))
    /\ StoreProgress(i)
    /\ UNCHANGED << buf, save_in_progress, fs, inodes, last, rt, budget, app, pt, lru, undo_stack, editor >>

\* std::fs::rename(temp, &path_clone)?; progress.store(100)
TaskRename(i) ==
    /\ Running(i, "rename")
    /\ IsSome(fs[Temp(i)])
    /\ fs' = [p \in AllPaths |->
                 IF p = tasks[i].path THEN fs[Temp(i)]
                 ELSE IF p = Temp(i) THEN None ELSE fs[p]]
    /\ SetTask(i, [tasks[i] EXCEPT !.pc = "clear", !.result = "ok",
                                    !.stores = Append(@, 100)])
    /\ StoreProgress(i)
    /\ UNCHANGED << buf, save_in_progress, inodes, last, rt, budget, app, pt, lru, undo_stack, editor >>

\* std::fs::rename(temp, &path_clone)? fails (always when there is no file at temp)
TaskRenameFail(i) ==
    /\ Running(i, "rename")
    /\ SetTask(i, Failed(tasks[i]))
    /\ StoreProgress(i)
    /\ UNCHANGED << buf, save_in_progress, fs, inodes, last, rt, budget, app, pt, lru, undo_stack, editor >>

\* in_progress.store(false): the thread ends
TaskClear(i) ==
    /\ Running(i, "clear")
    /\ save_in_progress' = FALSE
    /\ SetTask(i, [tasks[i] EXCEPT !.pc = "done"])
    /\ UNCHANGED << buf, save_progress, fs, inodes, last, rt, budget, app, pt, lru, undo_stack, editor >>

TaskStep ==
    \E i \in 1..Len(tasks) :
        \/ TaskStart(i) \/ TaskStartFail(i) \/ TaskWrite(i) \/ TaskWriteFail(i)
        \/ TaskFlush(i) \/ TaskFlushFail(i) \/ TaskRename(i) \/ TaskRenameFail(i)
        \/ TaskClear(i)

-----------------------------------------------------------------------------

\* App::new before any text is indexed: structural_index is None
NoQuery == [op |-> "none", arg |-> 0, impl |-> "", result |-> << >>]
AppNew(text) ==
    [text |-> text, tokens |-> << >>, structural_index |-> None, query |-> NoQuery]

\* Buffer::new and the files on disk
BufferInit(files) ==
    /\ buf = new
    /\ save_progress = 0
    /\ save_in_progress = FALSE
    /\ \E bytes \in files : inodes = << bytes >>
    /\ fs = [p \in AllPaths |-> IF p = DataJson THEN Some(1) ELSE None]
    /\ tasks = << >>
    /\ last = Call("new", TRUE)
    /\ rt = Idle
    /\ budget = [edits |-> 0, saves |-> 0, reads |-> 0, loads |-> 0]

\* App::new: should_quit is false; pc: the process runs or has ended; wq is
\* a ghost: the buffer when ":wq" was typed
EditorNew == [should_quit |-> FALSE, pc |-> "run", wq |-> None]

\* UndoStack::new; op is a ghost: the call made last
UndoStackNew ==
    [stack |-> << >>, redo_stack |-> << >>, current_group |-> << >>,
     group_start_time |-> FALSE, op |-> "new"]

\* ParserThread::new: two empty bounded channels, the worker blocked in
\* recv(), the owner holding cmd_tx, resp_rx and the join handle.  accepted
\* (the contents parse() returned Ok for, request r is accepted[r]), received
\* (the responses try_recv_response() returned) and got (its last return
\* value) are ghosts.
WorkerIdle == [pc |-> "recv", req |-> 0, content |-> << >>, tokens |-> << >>, len |-> 0]
OwnerIdle == [pc |-> "idle", msg |-> << >>, then |-> "idle"]
ParserThreadNew ==
    [cmd |-> << >>, resp |-> << >>, worker |-> WorkerIdle, owner |-> OwnerIdle,
     accepted |-> << >>, received |-> << >>, got |-> None]

Init ==
    /\ BufferInit(InitialFiles)
    /\ app = AppNew(<< >>)
    /\ pt = ParserThreadNew
    /\ lru = << >>
    /\ undo_stack = UndoStackNew
    /\ editor = EditorNew

Next ==
    \/ LoadFile \/ Insert \/ Delete \/ Replace \/ GetLineCached
    \/ Save \/ SaveAs \/ FinalizeSave
    \/ TaskStep

Spec == Init /\ [][Next]_vars

-----------------------------------------------------------------------------
(* The tokenizer (src/src/parser/tokenizer.rs).  Positions are 0-based     *)
(* byte offsets, input[pos] of the source is input[pos + 1] here.          *)

\* `token.depth as u8`: the width of NodeInfo.depth
U8 == 256

\* variant: a token reaches one byte into the next
Token_Wide(kind, start, end, depth) ==
    [kind |-> kind, start |-> start, end |-> end + 1, depth |-> depth]

Token(kind, start, end, depth) ==
    [kind |-> kind, start |-> start, end |-> end, depth |-> depth]

peek(input, pos) == IF pos < Len(input) THEN Some(input[pos + 1]) ELSE None
\* the position after advance()
advance(input, pos) == IF pos < Len(input) THEN pos + 1 ELSE pos

Whitespace == {" ", "\n", "\r", "\t"}
Digits == {"0", "1", "2", "3", "4", "5", "6", "7", "8", "9"}

\* `while let Some(ch) = self.peek() { if <ch in class> { advance } else { break } }`
RECURSIVE SkipWhile(_, _, _)
SkipWhile(input, pos, class) ==
    IF pos < Len(input) /\ input[pos + 1] \in class
    THEN SkipWhile(input, pos + 1, class)
    ELSE pos

\* variant: a whitespace token also where no whitespace byte stands
skip_whitespace_Always(input, pos, depth) ==
    Some(Token("Whitespace", pos, SkipWhile(input, pos, Whitespace), depth))

skip_whitespace(input, pos, depth) ==
    LET end == SkipWhile(input, pos, Whitespace)
    IN  IF end > pos THEN Some(Token("Whitespace", pos, end, depth)) ELSE None

\* variant: a backslash is a byte like any other
RECURSIVE StringLoop_NoEscape(_, _)
StringLoop_NoEscape(input, pos) ==
    IF pos >= Len(input) THEN [kind |-> "Invalid", pos |-> pos]
    ELSE IF input[pos + 1] = "\"" THEN [kind |-> "String", pos |-> pos + 1]
    ELSE StringLoop_NoEscape(input, pos + 1)

\* the loop of tokenize_string, entered after the opening quote
RECURSIVE StringLoop(_, _)
StringLoop(input, pos) ==
    IF pos >= Len(input) THEN [kind |-> "Invalid", pos |-> pos]
    ELSE IF input[pos + 1] = "\"" THEN [kind |-> "String", pos |-> pos + 1]
    ELSE IF input[pos + 1] = "\\" THEN StringLoop(input, advance(input, pos + 1))
    ELSE StringLoop(input, pos + 1)

tokenize_string(input, start, depth) ==
    LET r == StringLoop(input, advance(input, start))
    IN  [token |-> Token(r.kind, start, r.pos, depth), pos |-> r.pos, depth |-> depth]

tokenize_number(input, start, depth) ==
    LET p1 == IF peek(input, start) = Some("-") THEN start + 1 ELSE start
        p2 == SkipWhile(input, p1, Digits)
        has_digits == p2 > p1
        p3 == IF peek(input, p2) = Some(".")
              THEN SkipWhile(input, p2 + 1, Digits)
              ELSE p2
        p4 == IF peek(input, p3) \in {Some("e"), Some("E")}
              THEN LET q == IF peek(input, p3 + 1) \in {Some("+"), Some("-")}
                            THEN p3 + 2 ELSE p3 + 1
                   IN  SkipWhile(input, q, Digits)
              ELSE p3
    IN  [token |-> Token(IF has_digits THEN "Number" ELSE "Invalid", start, p4, depth),
         pos |-> p4, depth |-> depth]

\* the position and kind match_keyword ends with: a mismatching byte is consumed
RECURSIVE KeywordLoop(_, _, _, _)
KeywordLoop(input, pos, keyword, kind) ==
    IF keyword = << >> THEN [kind |-> kind, pos |-> pos]
    ELSE IF pos >= Len(input) THEN [kind |-> "Invalid", pos |-> pos]
    ELSE IF input[pos + 1] = Head(keyword)
         THEN KeywordLoop(input, pos + 1, Tail(keyword), kind)
         ELSE [kind |-> "Invalid", pos |-> pos + 1]

match_keyword(input, start, depth, keyword, kind) ==
    LET r == KeywordLoop(input, start, keyword, kind)
    IN  [token |-> Token(r.kind, start, r.pos, depth), pos |-> r.pos, depth |-> depth]

\* one-byte tokens
Punct(input, start, depth, kind) ==
    [token |-> Token(kind, start, start + 1, depth), pos |-> start + 1, depth |-> depth]

\* next_token: Option<(token, self.pos, self.depth)>
next_token(input, pos, depth) ==
    LET ws == skip_whitespace(input, pos, depth)
        ch == input[pos + 1]
    IN  IF IsSome(ws)
        THEN Some([token |-> Unwrap(ws), pos |-> Unwrap(ws).end, depth |-> depth])
        ELSE IF pos >= Len(input) THEN None
        ELSE Some(
          CASE ch \in {"{", "["} ->
                 [token |-> Token(IF ch = "{" THEN "BraceOpen" ELSE "BracketOpen",
                                  pos, pos + 1, depth),
                  pos |-> pos + 1, depth |-> depth + 1]
            [] ch \in {"}", "]"} ->
                 [token |-> Token(IF ch = "}" THEN "BraceClose" ELSE "BracketClose",
                                  pos, pos + 1, SatSub(depth, 1)),
                  pos |-> pos + 1, depth |-> SatSub(depth, 1)]
            [] ch = ":" -> Punct(input, pos, depth, "Colon")
            [] ch = "," -> Punct(input, pos, depth, "Comma")
            [] ch = "\"" -> tokenize_string(input, pos, depth)
            [] ch \in Digits \cup {"-"} -> tokenize_number(input, pos, depth)
            [] ch = "t" -> match_keyword(input, pos, depth, << "t", "r", "u", "e" >>, "True")
            [] ch = "f" -> match_keyword(input, pos, depth, << "f", "a", "l", "s", "e" >>, "False")
            [] ch = "n" -> match_keyword(input, pos, depth, << "n", "u", "l", "l" >>, "Null")
            [] OTHER -> Punct(input, pos, depth, "Invalid"))

\* one iteration of `while let Some(token) = self.next_token()`, over
\* (self.pos, self.depth, tokens); at the end of the input nothing changes
TokenizerStep(input, t) ==
    LET n == next_token(input, t.pos, t.depth)
    IN  IF n = None THEN t
        ELSE [pos |-> Unwrap(n).pos, depth |-> Unwrap(n).depth,
              tokens |-> Append(t.tokens, Unwrap(n).token)]

\* n iterations, split in halves to keep the evaluation shallow
RECURSIVE TokenizerRun(_, _, _)
TokenizerRun(input, t, n) ==
    IF t.pos >= Len(input) \/ n = 0 THEN t
    ELSE IF n = 1 THEN TokenizerStep(input, t)
    ELSE TokenizerRun(input, TokenizerRun(input, t, n \div 2), n - n \div 2)

\* Tokenizer::new(input).tokenize_all(): a token takes at least one byte, so
\* the loop ends within Len(input) iterations
tokenize_all(input) ==
    TokenizerRun(input, [pos |-> 0, depth |-> 0, tokens |-> << >>], Len(input)).tokens

-----------------------------------------------------------------------------
(* The structural index (src/src/parser/structural_index.rs).  A NodeId is *)
(* 0-based: node id is nodes[id + 1].                                      *)

NodeInfo(kind, start, end, depth, parent) ==
    [kind |-> kind, start |-> start, end |-> end, depth |-> depth,
     parent |-> parent, status |-> "Parsed"]

\* StructuralIndex::new
EmptyIndex == [nodes |-> << >>, offset_map |-> EmptyMap]

\* the node kind a token becomes, None for the tokens from_tokens ignores
NodeKindOf(kind) ==
    CASE kind = "BraceOpen" -> Some("Object")
      [] kind = "BracketOpen" -> Some("Array")
      [] kind = "String" -> Some("String")
      [] kind = "Number" -> Some("Number")
      [] kind \in {"True", "False"} -> Some("Boolean")
      [] kind = "Null" -> Some("Null")
      [] OTHER -> None

\* one iteration of the loop of from_tokens over (index, stack, next), next
\* being the position of the iterator in tokens
TokenStep(st, tokens) ==
    LET token == tokens[st.next]
        node_id == Len(st.index.nodes)
        parent == IF st.stack = << >> THEN None ELSE Some(st.stack[Len(st.stack)].id)
        kind == NodeKindOf(token.kind)
        pushed == [nodes |-> Append(st.index.nodes,
                                    NodeInfo(Unwrap(kind), token.start, token.end,
                                             token.depth % U8, parent)),
                   offset_map |-> (token.start :> node_id) @@ st.index.offset_map]
    IN  IF token.kind \in {"BraceOpen", "BracketOpen"}
        THEN [index |-> pushed,
              stack |-> Append(st.stack, [id |-> node_id, kind |-> Unwrap(kind),
                                          start |-> token.start, depth |-> token.depth]),
              next |-> st.next + 1]
        ELSE IF token.kind \in {"BraceClose", "BracketClose"} /\ st.stack # << >>
        THEN [index |-> [st.index EXCEPT
                           !.nodes[st.stack[Len(st.stack)].id + 1].end = token.end],
              stack |-> SubSeq(st.stack, 1, Len(st.stack) - 1),
              next |-> st.next + 1]
        ELSE IF IsSome(kind)
        THEN [index |-> pushed, stack |-> st.stack, next |-> st.next + 1]
        ELSE [st EXCEPT !.next = @ + 1]

\* n iterations of `for token in tokens`, split in halves to keep the
\* evaluation shallow
RECURSIVE TokenLoop(_, _, _)
TokenLoop(st, tokens, n) ==
    IF st.next > Len(tokens) \/ n = 0 THEN st
    ELSE IF n = 1 THEN TokenStep(st, tokens)
    ELSE TokenLoop(TokenLoop(st, tokens, n \div 2), tokens, n - n \div 2)

from_tokens(tokens) ==
    TokenLoop([index |-> EmptyIndex, stack |-> << >>, next |-> 1], tokens, Len(tokens)).index

\* the closure node_at hands to binary_search_by
Compare(node, offset) ==
    IF offset < node.start THEN "Greater"
    ELSE IF offset >= node.end THEN "Less"
    ELSE "Equal"

\* slice::binary_search_by of the standard library, which returns as soon as a
\* probe compares Equal (Rust 1.52 to 1.81); None stands for Err(_)
RECURSIVE SearchEarlyReturn(_, _, _, _)
SearchEarlyReturn(nodes, offset, left, right) ==
    IF left >= right THEN None
    ELSE LET mid == left + (right - left) \div 2
             cmp == Compare(nodes[mid + 1], offset)
         IN  IF cmp = "Equal" THEN Some(mid)
             ELSE IF cmp = "Less" THEN SearchEarlyReturn(nodes, offset, mid + 1, right)
             ELSE SearchEarlyReturn(nodes, offset, left, mid)

\* slice::binary_search_by of the standard library, which halves the range
\* without testing for Equal and compares once at the end (Rust 1.82 on)
RECURSIVE SearchBranchless(_, _, _, _)
SearchBranchless(nodes, offset, base, size) ==
    IF size = 0 THEN None
    ELSE IF size = 1
    THEN IF Compare(nodes[base + 1], offset) = "Equal" THEN Some(base) ELSE None
    ELSE LET half == size \div 2
             mid == base + half
         IN  SearchBranchless(nodes, offset,
                              IF Compare(nodes[mid + 1], offset) = "Greater" THEN base ELSE mid,
                              size - half)

\* the implementations of binary_search_by a build can link
SearchImpls == {"early_return", "branchless"}

binary_search_by(nodes, offset, impl) ==
    IF impl = "early_return"
    THEN SearchEarlyReturn(nodes, offset, 0, Len(nodes))
    ELSE SearchBranchless(nodes, offset, 0, Len(nodes))

\* node_at: Option<&NodeInfo>
node_at(index, offset, impl) ==
    LET found == binary_search_by(index.nodes, offset, impl)
    IN  IF IsSome(found) THEN Some(index.nodes[Unwrap(found) + 1]) ELSE None

\* the position a sibling scan stands at, and what it returned once it has
Scanning(idx) == [idx |-> idx, done |-> FALSE, result |-> None]
Returned(s, result) == [s EXCEPT !.done = TRUE, !.result = result]

\* one iteration of the loop of next_sibling
ForwardStep(nodes, s, depth, parent) ==
    IF s.idx >= Len(nodes) THEN Returned(s, None)
    ELSE IF nodes[s.idx + 1].depth = depth /\ nodes[s.idx + 1].parent = parent
         THEN Returned(s, Some(s.idx))
    ELSE IF nodes[s.idx + 1].depth < depth THEN Returned(s, None)
    ELSE Scanning(s.idx + 1)

\* n iterations, split in halves to keep the evaluation shallow
RECURSIVE ScanForward(_, _, _, _, _)
ScanForward(nodes, s, depth, parent, n) ==
    IF s.done \/ n = 0 THEN s
    ELSE IF n = 1 THEN ForwardStep(nodes, s, depth, parent)
    ELSE ScanForward(nodes, ScanForward(nodes, s, depth, parent, n \div 2),
                     depth, parent, n - n \div 2)

\* variant: the scan starts one node too far
next_sibling_skipping(index, node_id) ==
    IF node_id >= Len(index.nodes) THEN None
    ELSE ScanForward(index.nodes, Scanning(node_id + 2),
                     index.nodes[node_id + 1].depth, index.nodes[node_id + 1].parent,
                     Len(index.nodes) + 1).result

next_sibling(index, node_id) ==
    IF node_id >= Len(index.nodes) THEN None
    ELSE ScanForward(index.nodes, Scanning(node_id + 1),
                     index.nodes[node_id + 1].depth, index.nodes[node_id + 1].parent,
                     Len(index.nodes) + 1).result

\* one iteration of the loop of prev_sibling, over (0..node_id).rev()
BackwardStep(nodes, s, depth, parent) ==
    IF s.idx < 0 THEN Returned(s, None)
    ELSE IF nodes[s.idx + 1].depth = depth /\ nodes[s.idx + 1].parent = parent
         THEN Returned(s, Some(s.idx))
    ELSE IF nodes[s.idx + 1].depth < depth THEN Returned(s, None)
    ELSE Scanning(s.idx - 1)

RECURSIVE ScanBackward(_, _, _, _, _)
ScanBackward(nodes, s, depth, parent, n) ==
    IF s.done \/ n = 0 THEN s
    ELSE IF n = 1 THEN BackwardStep(nodes, s, depth, parent)
    ELSE ScanBackward(nodes, ScanBackward(nodes, s, depth, parent, n \div 2),
                      depth, parent, n - n \div 2)

prev_sibling(index, node_id) ==
    IF node_id >= Len(index.nodes) THEN None
    ELSE ScanBackward(index.nodes, Scanning(node_id - 1),
                      index.nodes[node_id + 1].depth, index.nodes[node_id + 1].parent,
                      Len(index.nodes) + 1).result

\* NodeInfo::is_container
is_container(node) == node.kind \in {"Object", "Array"}

\* `depth + 1` on a u8: with overflow checks (debug profile) the addition
\* panics at 255, without them (release profile) it wraps to 0
Builds == {"debug", "release"}
AddOverflows(depth, build) == build = "debug" /\ depth + 1 >= U8
AddOne(depth) == (depth + 1) % U8

\* what a call returned, or that it panicked
Ok(value) == [panicked |-> FALSE, value |-> value]
Panic == [panicked |-> TRUE, value |-> None]

\* Iterator::position over the ids lo..hi: the first id whose flag is set,
\* searched by halves to keep the evaluation shallow
RECURSIVE Position(_, _, _)
RECURSIVE OrElse(_, _, _, _)
Position(hit, lo, hi) ==
    IF lo > hi THEN None
    ELSE IF lo = hi THEN (IF hit[lo] THEN Some(lo) ELSE None)
    ELSE OrElse(Position(hit, lo, (lo + hi) \div 2), hit, (lo + hi) \div 2 + 1, hi)
OrElse(left, hit, lo, hi) == IF IsSome(left) THEN left ELSE Position(hit, lo, hi)

\* the ids lo..hi in order
IdSeq(lo, hi) == [i \in 1..(IF hi >= lo THEN hi - lo + 1 ELSE 0) |-> lo + i - 1]
\* Iterator::position in a list of ids
IndexOf(ids, id) ==
    IF \E i \in 1..Len(ids) : ids[i] = id
    THEN Some((CHOOSE i \in 1..Len(ids) : ids[i] = id) - 1)
    ELSE None

first_child(index, node_id, build) ==
    IF node_id >= Len(index.nodes) THEN Ok(None)
    ELSE IF AddOverflows(index.nodes[node_id + 1].depth, build) THEN Panic
    ELSE LET node == index.nodes[node_id + 1]
             child_depth == AddOne(node.depth)
             IsChild(idx) == /\ index.nodes[idx + 1].parent = Some(node_id)
                             /\ index.nodes[idx + 1].depth = child_depth
             stop == Position([idx \in (node_id + 1)..(Len(index.nodes) - 1) |->
                                  IsChild(idx) \/ index.nodes[idx + 1].depth <= node.depth],
                              node_id + 1, Len(index.nodes) - 1)
         IN  IF IsSome(stop) /\ IsChild(Unwrap(stop)) THEN Ok(stop) ELSE Ok(None)

children(index, node_id, build) ==
    IF node_id >= Len(index.nodes) \/ ~is_container(index.nodes[node_id + 1 ]) THEN Ok(<< >>)
    ELSE LET node == index.nodes[node_id + 1]
             exit == Position([idx \in (node_id + 1)..(Len(index.nodes) - 1) |->
                                  index.nodes[idx + 1].start >= node.end],
                              node_id + 1, Len(index.nodes) - 1)
             inside == IdSeq(node_id + 1,
                             IF IsSome(exit) THEN Unwrap(exit) - 1 ELSE Len(index.nodes) - 1)
             IsDirect(idx) == index.nodes[idx + 1].depth = AddOne(node.depth)
         IN  IF inside # << >> /\ AddOverflows(node.depth, build) THEN Panic
             ELSE Ok(SelectSeq(inside, IsDirect))

\* the test of next_key and prev_key on node idx: "key", "other", or "panic"
\* when children() panics
KeyCheck(index, idx, build) ==
    LET node == index.nodes[idx + 1]
        siblings == children(index, Unwrap(node.parent), build)
        pos == IndexOf(siblings.value, idx)
    IN  IF node.kind # "String" \/ node.parent = None THEN "other"
        ELSE IF index.nodes[Unwrap(node.parent) + 1].kind # "Object" THEN "other"
        ELSE IF siblings.panicked THEN "panic"
        ELSE IF IsSome(pos) /\ Unwrap(pos) % 2 = 0 THEN "key"
        ELSE "other"

\* is_value_node: "value", "other" or "panic"
is_value_node(index, node_id, build) ==
    IF node_id >= Len(index.nodes) THEN "other"
    ELSE LET node == index.nodes[node_id + 1]
             parent == index.nodes[Unwrap(node.parent) + 1]
             siblings == children(index, Unwrap(node.parent), build)
             pos == IndexOf(siblings.value, node_id)
         IN  IF node.parent = None THEN "value"
             ELSE IF parent.kind = "Object"
             THEN IF siblings.panicked THEN "panic"
                  ELSE IF IsSome(pos)
                       THEN (IF Unwrap(pos) % 2 = 1 THEN "value" ELSE "other")
                       ELSE "other"
             ELSE IF parent.kind = "Array" THEN "value"
             ELSE "other"

\* the loop of next_key / next_value: the first node with start > from_offset
\* that passes the test (class[idx] is what the test says of node idx)
FirstAfter(index, from_offset, class, wanted) ==
    LET found == Position([idx \in 0..(Len(index.nodes) - 1) |->
                              /\ index.nodes[idx + 1].start > from_offset
                              /\ class[idx] \in {wanted, "panic"}],
                          0, Len(index.nodes) - 1)
    IN  IF IsSome(found) /\ class[Unwrap(found)] = "panic" THEN Panic ELSE Ok(found)

\* the loop of prev_key / prev_value: it breaks at the first node with
\* start >= from_offset and returns the last node before it that passes the test
LastBefore(index, from_offset, class, wanted) ==
    LET count == Len(index.nodes)
        break == Position([idx \in 0..(count - 1) |-> index.nodes[idx + 1].start >= from_offset],
                          0, count - 1)
        upto == IF IsSome(break) THEN Unwrap(break) - 1 ELSE count - 1
        \* scanning the visited nodes from the last one back
        back == Position([k \in 0..upto |-> class[upto - k] \in {wanted, "panic"}], 0, upto)
    IN  IF \E idx \in 0..upto : class[idx] = "panic" THEN Panic
        ELSE IF IsSome(back) THEN Ok(Some(upto - Unwrap(back)))
        ELSE Ok(None)

KeyClass(index, build) == [idx \in 0..(Len(index.nodes) - 1) |-> KeyCheck(index, idx, build)]
ValueClass(index, build) ==
    [idx \in 0..(Len(index.nodes) - 1) |-> is_value_node(index, idx, build)]

next_key(index, from_offset, build) ==
    FirstAfter(index, from_offset, KeyClass(index, build), "key")
prev_key(index, from_offset, build) ==
    LastBefore(index, from_offset, KeyClass(index, build), "key")
next_value(index, from_offset, build) ==
    FirstAfter(index, from_offset, ValueClass(index, build), "value")
prev_value(index, from_offset, build) ==
    LastBefore(index, from_offset, ValueClass(index, build), "value")

-----------------------------------------------------------------------------
(* The index built over a text, and the queries on it.                     *)

\* longest text over JsonBytes, and longest tail after the deep nesting
MaxTextLen == 4
MaxTailLen == 3

JsonBytes == {"[", "]", "{", "}", "1", ",", "\""}
TailBytes == {"]", "1"}
Strings(alphabet, n) == UNION {[1..k -> alphabet] : k \in 0..n}

\* the documents of the tests of structural_index.rs, and one with every kind of value
TestDocuments ==
    { << "{", "\"", "k", "e", "y", "\"", ":", " ", "\"", "v", "a", "l", "u", "e", "\"", "}" >>,
      << "[", "1", ",", " ", "2", ",", " ", "3", "]" >>,
      << "[", "t", "r", "u", "e", ",", "n", "u", "l", "l", ",", "f", "a", "l", "s", "e", "]" >> }

\* containers nested as deep as NodeInfo.depth can count, then a tail
Nest(k) == [i \in 1..k |-> "["]
DeepDocuments == {Nest(U8) \o tail : tail \in Strings(TailBytes, MaxTailLen)}

\* {"a": 1, "b": [2, 3]}
ScenarioA ==
    << "{", "\"", "a", "\"", ":", " ", "1", ",", " ",
       "\"", "b", "\"", ":", " ", "[", "2", ",", " ", "3", "]", "}" >>

\* quoted strings with escapes, closed and cut short
StringBytes == {"\"", "\\", "a"}

Inputs ==
    Strings(JsonBytes, MaxTextLen) \cup Strings(StringBytes, MaxTextLen)
        \cup TestDocuments \cup {ScenarioA} \cup DeepDocuments

Built == IsSome(app.structural_index)
Index == Unwrap(app.structural_index)
Query(op, arg, impl, result) == [op |-> op, arg |-> arg, impl |-> impl, result |-> result]
BufferVars == << buf, save_progress, save_in_progress, fs, inodes, tasks, last, rt, budget >>

\* expand_structural_index, first chunk: tokenize the text and build the index
ExpandStructuralIndex ==
    /\ ~Built
    /\ app' = [app EXCEPT !.tokens = tokenize_all(app.text),
                           !.structural_index = Some(from_tokens(tokenize_all(app.text)))]
    /\ UNCHANGED << BufferVars, pt, lru, undo_stack, editor >>

NodeAt ==
    /\ Built /\ app.query = NoQuery
    /\ \E offset \in 0..(Len(app.text) + 1), impl \in SearchImpls :
         app' = [app EXCEPT !.query = Query("node_at", offset, impl,
                                            node_at(Index, offset, impl))]
    /\ UNCHANGED << BufferVars, pt, lru, undo_stack, editor >>

NextSibling ==
    /\ Built /\ app.query = NoQuery
    /\ \E node_id \in 0..(Len(Index.nodes) + 1) :
         app' = [app EXCEPT !.query = Query("next_sibling", node_id, "",
                                            next_sibling(Index, node_id))]
    /\ UNCHANGED << BufferVars, pt, lru, undo_stack, editor >>

PrevSibling ==
    /\ Built /\ app.query = NoQuery
    /\ \E node_id \in 0..(Len(Index.nodes) + 1) :
         app' = [app EXCEPT !.query = Query("prev_sibling", node_id, "",
                                            prev_sibling(Index, node_id))]
    /\ UNCHANGED << BufferVars, pt, lru, undo_stack, editor >>

FirstChild ==
    /\ Built /\ app.query = NoQuery
    /\ \E node_id \in 0..(Len(Index.nodes) + 1), build \in Builds :
         app' = [app EXCEPT !.query = Query("first_child", node_id, build,
                                            first_child(Index, node_id, build))]
    /\ UNCHANGED << BufferVars, pt, lru, undo_stack, editor >>

Children ==
    /\ Built /\ app.query = NoQuery
    /\ \E node_id \in 0..(Len(Index.nodes) + 1), build \in Builds :
         app' = [app EXCEPT !.query = Query("children", node_id, build,
                                            children(Index, node_id, build))]
    /\ UNCHANGED << BufferVars, pt, lru, undo_stack, editor >>

NextKey ==
    /\ Built /\ app.query = NoQuery
    /\ \E from_offset \in 0..(Len(app.text) + 1), build \in Builds :
         app' = [app EXCEPT !.query = Query("next_key", from_offset, build,
                                            next_key(Index, from_offset, build))]
    /\ UNCHANGED << BufferVars, pt, lru, undo_stack, editor >>

PrevKey ==
    /\ Built /\ app.query = NoQuery
    /\ \E from_offset \in 0..(Len(app.text) + 1), build \in Builds :
         app' = [app EXCEPT !.query = Query("prev_key", from_offset, build,
                                            prev_key(Index, from_offset, build))]
    /\ UNCHANGED << BufferVars, pt, lru, undo_stack, editor >>

NextValue ==
    /\ Built /\ app.query = NoQuery
    /\ \E from_offset \in 0..(Len(app.text) + 1), build \in Builds :
         app' = [app EXCEPT !.query = Query("next_value", from_offset, build,
                                            next_value(Index, from_offset, build))]
    /\ UNCHANGED << BufferVars, pt, lru, undo_stack, editor >>

PrevValue ==
    /\ Built /\ app.query = NoQuery
    /\ \E from_offset \in 0..(Len(app.text) + 1), build \in Builds :
         app' = [app EXCEPT !.query = Query("prev_value", from_offset, build,
                                            prev_value(Index, from_offset, build))]
    /\ UNCHANGED << BufferVars, pt, lru, undo_stack, editor >>

IndexInit ==
    /\ BufferInit({<< "a", NL >>})
    /\ \E text \in Inputs : app = AppNew(text)
    /\ pt = ParserThreadNew
    /\ lru = << >>
    /\ undo_stack = UndoStackNew
    /\ editor = EditorNew

IndexNext ==
    \/ ExpandStructuralIndex
    \/ NodeAt \/ NextSibling \/ PrevSibling
    \/ FirstChild \/ Children
    \/ NextKey \/ PrevKey \/ NextValue \/ PrevValue

IndexSpec == IndexInit /\ [][IndexNext]_vars

\* The tokenizer over texts that reach each of its branches: keywords cut
\* short or misspelt, numbers with sign, fraction and exponent, whitespace
\* and bytes that start no token.
MaxTokenTextLen == 4
KeywordBytes == {"t", "r", "u", "e", "f"}
NumberBytes == {"-", "1", ".", "e", "+"}
OtherBytes == {" ", "\n", "1", "z"}
TokenizerInputs ==
    Inputs \cup Strings(KeywordBytes, MaxTokenTextLen)
           \cup Strings(NumberBytes, MaxTokenTextLen)
           \cup Strings(OtherBytes, MaxTokenTextLen)

TokenizerInit ==
    /\ BufferInit({<< "a", NL >>})
    /\ \E text \in TokenizerInputs : app = AppNew(text)
    /\ pt = ParserThreadNew
    /\ lru = << >>
    /\ undo_stack = UndoStackNew
    /\ editor = EditorNew

TokenizerSpec == TokenizerInit /\ [][ExpandStructuralIndex]_vars

-----------------------------------------------------------------------------
(* The parser thread (src/src/parser/parser_thread.rs): an owner and a     *)
(* worker joined by two bounded FIFO channels.  A step of the worker is    *)
(* one channel operation; the tokenizing between two sends is local.       *)

\* bounded(100) for both channels, scaled
ChannelCapacity == 2
\* a Progress message every 1000 tokens, scaled
ProgressEvery == 2
\* calls of parse() in one behaviour
MaxParses == 3
\* the contents handed to parse(): no token, one token, three tokens
ParseContents == {<< >>, << "1" >>, << "[", "1", "]" >>}

\* Tokenizer::new(&content) and the loop over next_token(), per content
TokensOf == [content \in ParseContents |-> tokenize_all(content)]

\* ParserMessage
Parse(content, req) == [type |-> "Parse", content |-> content, req |-> req]
Shutdown == [type |-> "Shutdown", content |-> << >>, req |-> 0]

\* ParserResponse; a progress value n / d is kept as << n, d >>; req (the
\* request the response belongs to) is a ghost
Progress(n, d, req) ==
    [kind |-> "Progress", progress |-> << n, d >>, tokens |-> << >>, req |-> req]
Tokens(tokens, req) ==
    [kind |-> "Tokens", progress |-> << 0, 1 >>, tokens |-> tokens, req |-> req]
CompleteResponse_AsTokens(req) ==
    [kind |-> "Tokens", progress |-> << 0, 1 >>, tokens |-> << >>, req |-> req]
CompleteResponse(req) ==
    [kind |-> "Complete", progress |-> << 0, 1 >>, tokens |-> << >>, req |-> req]

\* Sender::send on a bounded channel blocks while the channel is full and
\* fails at once when the receiving side is gone
ReceiverGone == pt.owner.pc = "dropped"
WorkerGone == pt.worker.pc = "exited"
CanSendResp == ReceiverGone \/ Len(pt.resp) < ChannelCapacity
CanSendCmd == WorkerGone \/ Len(pt.cmd) < ChannelCapacity
\* let _ = resp_tx.send(response)
send_resp(response) == IF ReceiverGone THEN pt.resp ELSE Append(pt.resp, response)
\* cmd_tx.send(message)
send_cmd(message) == IF WorkerGone THEN pt.cmd ELSE Append(pt.cmd, message)

\* the tokens the loop over Tokenizer::new(&content).next_token() yields for
\* the request in hand (worker.len of them are pushed so far), and the next
\* length of the token vector at which the loop sends a Progress
WorkerTokens == pt.worker.tokens
NextProgressAt ==
    {m \in (pt.worker.len + 1)..Len(WorkerTokens) :
        /\ m % ProgressEvery = 0
        /\ \A k \in (pt.worker.len + 1)..(m - 1) : k % ProgressEvery # 0}

\* parser_worker: cmd_rx.recv()
WorkerRecv ==
    /\ pt.worker.pc = "recv"
    /\ \/ /\ pt.cmd # << >>
          /\ pt' = [pt EXCEPT
                !.cmd = Tail(pt.cmd),
                !.worker = IF Head(pt.cmd).type = "Parse"
                           THEN [pc |-> "progress", req |-> Head(pt.cmd).req,
                                 content |-> Head(pt.cmd).content,
                                 tokens |-> TokensOf[Head(pt.cmd).content],
                                 len |-> 0]
                           ELSE [WorkerIdle EXCEPT !.pc = "exited"]]
       \/ /\ pt.cmd = << >> /\ ReceiverGone
          /\ pt' = [pt EXCEPT !.worker = [WorkerIdle EXCEPT !.pc = "exited"]]
    /\ UNCHANGED << BufferVars, app, lru, undo_stack, editor >>

\* resp_tx.send(Progress(0.0))
WorkerSendProgressZero ==
    /\ pt.worker.pc = "progress"
    /\ CanSendResp
    /\ pt' = [pt EXCEPT !.resp = send_resp(Progress(0, 1, pt.worker.req)),
                        !.worker.pc = "tokenize"]
    /\ UNCHANGED << BufferVars, app, lru, undo_stack, editor >>

\* the token loop up to its next send: Progress(token.end / total_size)
WorkerSendProgress ==
    /\ pt.worker.pc = "tokenize"
    /\ CanSendResp
    /\ \E m \in NextProgressAt :
         pt' = [pt EXCEPT
            !.resp = send_resp(Progress(WorkerTokens[m].end,
                                        Len(pt.worker.content), pt.worker.req)),
            !.worker.len = m]
    /\ UNCHANGED << BufferVars, app, lru, undo_stack, editor >>

\* the rest of the token loop and resp_tx.send(Tokens(tokens))
WorkerSendTokens ==
    /\ pt.worker.pc = "tokenize"
    /\ NextProgressAt = {}
    /\ CanSendResp
    /\ pt' = [pt EXCEPT !.resp = send_resp(Tokens(WorkerTokens, pt.worker.req)),
                        !.worker.len = Len(WorkerTokens),
                        !.worker.pc = "complete"]
    /\ UNCHANGED << BufferVars, app, lru, undo_stack, editor >>

\* resp_tx.send(Complete), then back to recv()
WorkerSendComplete ==
    /\ pt.worker.pc = "complete"
    /\ CanSendResp
    /\ pt' = [pt EXCEPT !.resp = send_resp(CompleteResponse(pt.worker.req)),
                        !.worker = WorkerIdle]
    /\ UNCHANGED << BufferVars, app, lru, undo_stack, editor >>

parser_worker ==
    \/ WorkerRecv
    \/ WorkerSendProgressZero
    \/ WorkerSendProgress
    \/ WorkerSendTokens
    \/ WorkerSendComplete

\* the owner enters cmd_tx.send(message): parse() goes back to its caller
\* afterwards, shutdown() goes on to join(), drop() lets go of the channels
OwnerCall(message, then) ==
    /\ pt.owner.pc = "idle"
    /\ pt' = [pt EXCEPT !.owner = [pc |-> "sending", msg |-> message, then |-> then]]
    /\ UNCHANGED << BufferVars, app, lru, undo_stack, editor >>

\* ParserThread::parse
parse ==
    /\ Len(pt.accepted) < MaxParses
    /\ \E content \in ParseContents :
         OwnerCall(Parse(content, Len(pt.accepted) + 1), "idle")

\* ParserThread::shutdown
shutdown == OwnerCall(Shutdown, "joining")

\* Drop for ParserThread, the owner not having called shutdown()
drop == OwnerCall(Shutdown, "dropped")

\* cmd_tx.send(message) returns: Ok when the message is queued, Err when the
\* worker is gone
OwnerSend ==
    /\ pt.owner.pc = "sending"
    /\ CanSendCmd
    /\ pt' = [pt EXCEPT
          !.cmd = send_cmd(pt.owner.msg),
          !.accepted = IF pt.owner.msg.type = "Parse" /\ ~WorkerGone
                       THEN Append(pt.accepted, pt.owner.msg.content)
                       ELSE pt.accepted,
          !.owner = [pc |-> pt.owner.then, msg |-> << >>, then |-> "idle"]]
    /\ UNCHANGED << BufferVars, app, lru, undo_stack, editor >>

\* shutdown(): handle.join() returns once the worker has left its loop;
\* self is dropped at the end of shutdown()
OwnerJoin ==
    /\ pt.owner.pc = "joining"
    /\ WorkerGone
    /\ pt' = [pt EXCEPT !.owner.pc = "dropped"]
    /\ UNCHANGED << BufferVars, app, lru, undo_stack, editor >>

\* ParserThread::try_recv_response
try_recv_response ==
    /\ pt.owner.pc = "idle"
    /\ pt' = IF pt.resp = << >>
             THEN [pt EXCEPT !.got = None]
             ELSE [pt EXCEPT !.resp = Tail(pt.resp),
                             !.got = Some(Head(pt.resp)),
                             !.received = Append(pt.received, Head(pt.resp))]
    /\ UNCHANGED << BufferVars, app, lru, undo_stack, editor >>

ParserInit ==
    /\ BufferInit({<< "a", NL >>})
    /\ app = AppNew(<< >>)
    /\ pt = ParserThreadNew
    /\ lru = << >>
    /\ undo_stack = UndoStackNew
    /\ editor = EditorNew

ParserNext ==
    \/ parse \/ shutdown \/ drop
    \/ OwnerSend \/ OwnerJoin
    \/ try_recv_response
    \/ WorkerRecv
    \/ WorkerSendProgressZero
    \/ WorkerSendProgress
    \/ WorkerSendTokens
    \/ WorkerSendComplete

\* the worker is a thread of its own and runs whenever it is not blocked; an
\* owner that polls try_recv_response() takes a pending response; a send
\* that can complete returns
ParserSpec ==
    /\ ParserInit
    /\ [][ParserNext]_vars
    /\ WF_vars(parser_worker)
    /\ WF_vars(try_recv_response)
    /\ WF_vars(OwnerSend)

-----------------------------------------------------------------------------
(* The line cache on its own: a file loaded in mapped mode, then calls of  *)
(* get_line_cached and single edits, with the cache look-ups logged.       *)

\* look-ups of the line cache in one behaviour
MaxAccesses == 4
\* the files that load in mapped mode
CacheFiles == {bytes \in InitialFiles : Len(bytes) >= RopeThreshold}

\* get_line_cached(line_idx) reaches the line cache: mapped mode, no overlay
\* entry for the line, and the line is cached or can be read from the view
LooksUp(b, line_idx) ==
    /\ ~b.use_rope
    /\ line_idx \notin DOMAIN b.edits
    /\ \/ line_idx \in DOMAIN b.line_cache
       \/ IsSome(b.mmap) /\ line_idx < Len(b.line_offsets)

\* get_line_cached(line_idx), logged
CachedRead ==
    /\ Loaded
    /\ Len(lru) < MaxAccesses
    /\ \E line_idx \in Lines :
        /\ ~(~buf.use_rope /\ ReadLinePanics(buf, line_idx))
        /\ buf' = get_line_cached(buf, line_idx).b
        /\ lru' = IF LooksUp(buf, line_idx) THEN Append(lru, line_idx) ELSE lru
        /\ last' = Call(IF Evicts(buf, line_idx) THEN "get_line_cached_evict"
                         ELSE "get_line_cached", TRUE)
    /\ UNCHANGED << save_progress, save_in_progress, fs, inodes, tasks, rt, budget, app, pt,
                    undo_stack, editor >>

\* Buffer::new, then load_file of a file that loads in mapped mode
CacheInit ==
    /\ \E bytes \in CacheFiles : inodes = << bytes >>
    /\ fs = [p \in AllPaths |-> IF p = DataJson THEN Some(1) ELSE None]
    /\ buf = load_file(new, DataJson)
    /\ save_progress = 0
    /\ save_in_progress = FALSE
    /\ tasks = << >>
    /\ last = Call("load_file", TRUE)
    /\ rt = Idle
    /\ budget = [edits |-> 0, saves |-> 0, reads |-> 0, loads |-> 1]
    /\ app = AppNew(<< >>)
    /\ pt = ParserThreadNew
    /\ lru = << >>
    /\ undo_stack = UndoStackNew
    /\ editor = EditorNew

CacheNext == CachedRead \/ Insert \/ Delete

CacheSpec == CacheInit /\ [][CacheNext]_vars

-----------------------------------------------------------------------------
(* Undo and redo (src/src/edit/mod.rs, src/src/edit/undo.rs) over a        *)
(* buffer in rope mode.  The cursor an Edit records takes no part in the   *)
(* buffer calls and is left out.  before and after, the bytes of the rope  *)
(* around an edit, are ghosts.                                             *)

\* edits pushed in one behaviour
MaxPushes == 3
\* UndoStack.max_size (1000), scaled
UndoMaxSize == 2

RopeText(b) == Unwrap(b.rope)

\* Edit::new
Edit(offset, old_text, new_text, before, after) ==
    [offset |-> offset, old_text |-> old_text, new_text |-> new_text,
     before |-> before, after |-> after]

\* variant: the reverse of an edit is the edit
reverse_Same(edit) == edit

\* Edit::reverse
reverse(edit) ==
    [edit EXCEPT !.old_text = edit.new_text, !.new_text = edit.old_text]

\* the body of the loops of EditGroup::apply and apply_reverse for one edit:
\* insert new_text if it is not empty, then delete old_text's length if it is
\* not empty; r is the buffer and whether every call so far returned Ok
ApplyEdit(r, edit) ==
    IF ~r.ok THEN r
    ELSE LET i == IF edit.new_text # << >>
                  THEN insert(r.b, edit.offset, edit.new_text)
                  ELSE r
         IN  IF ~i.ok \/ edit.old_text = << >> THEN i
             ELSE delete(i.b, edit.offset, edit.offset + Len(edit.old_text))

\* EditGroup::apply: the edits in order
RECURSIVE apply(_, _)
apply(edits, r) ==
    IF edits = << >> THEN r ELSE apply(Tail(edits), ApplyEdit(r, Head(edits)))

\* EditGroup::apply_reverse: the reversed edits, last first
RECURSIVE apply_reverse(_, _)
apply_reverse(edits, r) ==
    IF edits = << >> THEN r
    ELSE apply_reverse(SubSeq(edits, 1, Len(edits) - 1),
                       ApplyEdit(r, reverse(edits[Len(edits)])))

\* UndoStack::commit_group
commit_group(u) ==
    IF u.current_group = << >> THEN u
    ELSE LET stack == Append(u.stack, u.current_group)
         IN  [u EXCEPT !.stack = IF Len(stack) > UndoMaxSize THEN Tail(stack) ELSE stack,
                       !.current_group = << >>,
                       !.group_start_time = FALSE]

\* UndoStack::push; elapsed: the group timeout has passed since the group
\* was started
push(u, edit, elapsed) ==
    LET c == IF u.group_start_time /\ elapsed THEN commit_group(u) ELSE u
    IN  [c EXCEPT !.group_start_time = TRUE,
                  !.current_group = Append(c.current_group, edit),
                  !.redo_stack = << >>,
                  !.op = "push"]

\* an EditOperations call that returned Ok(edit), followed by
\* undo_stack.push(edit); on Err nothing is pushed
Pushed(r, edit) ==
    /\ buf' = r.b
    /\ \E elapsed \in BOOLEAN :
         undo_stack' = IF r.ok THEN push(undo_stack, edit, elapsed)
                       ELSE [undo_stack EXCEPT !.op = "error"]
    /\ budget' = [budget EXCEPT !.edits = @ + 1]
    /\ UNCHANGED << save_progress, save_in_progress, fs, inodes, tasks, last, rt,
                    app, pt, lru, editor >>

CanPush == Loaded /\ buf.use_rope /\ budget.edits < MaxPushes

\* EditOperations::insert
EditInsert ==
    /\ CanPush
    /\ \E offset \in Offsets, text \in Texts :
         LET r == insert(buf, offset, text)
         IN  Pushed(r, Edit(offset, << >>, text, RopeText(buf), RopeText(r.b)))

\* EditOperations::delete
EditDelete ==
    /\ CanPush
    /\ \E start \in Offsets, end \in Offsets :
         LET r == delete(buf, start, end)
         IN  Pushed(r, Edit(start, slice(buf, start, end), << >>, RopeText(buf), RopeText(r.b)))

\* EditOperations::replace
EditReplace ==
    /\ CanPush
    /\ \E start \in Offsets, end \in Offsets, new_text \in Texts :
         LET r == replace(buf, start, end, new_text)
         IN  Pushed(r, Edit(start, slice(buf, start, end), new_text, RopeText(buf), RopeText(r.b)))

\* UndoStack::end_group
EndGroup ==
    /\ Loaded
    /\ undo_stack' = [commit_group(undo_stack) EXCEPT !.op = "end_group"]
    /\ UNCHANGED << BufferVars, app, pt, lru, editor >>

\* UndoStack::undo
Undo ==
    /\ Loaded
    /\ LET u == commit_group(undo_stack)
       IN  IF u.stack = << >>
           THEN /\ undo_stack' = [u EXCEPT !.op = "undo"]
                /\ UNCHANGED buf
           ELSE LET group == u.stack[Len(u.stack)]
                    r     == apply_reverse(group, [b |-> buf, ok |-> TRUE])
                    rest  == SubSeq(u.stack, 1, Len(u.stack) - 1)
                IN  /\ buf' = r.b
                    /\ undo_stack' =
                         IF r.ok
                         THEN [u EXCEPT !.stack = rest,
                                        !.redo_stack = Append(@, group),
                                        !.op = "undo"]
                         ELSE [u EXCEPT !.stack = rest, !.op = "error"]
    /\ UNCHANGED << save_progress, save_in_progress, fs, inodes, tasks, last, rt, budget,
                    app, pt, lru, editor >>

\* UndoStack::redo
Redo ==
    /\ Loaded
    /\ IF undo_stack.redo_stack = << >>
       THEN /\ undo_stack' = [undo_stack EXCEPT !.op = "redo"]
            /\ UNCHANGED buf
       ELSE LET group == undo_stack.redo_stack[Len(undo_stack.redo_stack)]
                r     == apply(group, [b |-> buf, ok |-> TRUE])
                rest  == SubSeq(undo_stack.redo_stack, 1, Len(undo_stack.redo_stack) - 1)
            IN  /\ buf' = r.b
                /\ undo_stack' =
                     IF r.ok
                     THEN [undo_stack EXCEPT !.redo_stack = rest,
                                             !.stack = Append(@, group),
                                             !.op = "redo"]
                     ELSE [undo_stack EXCEPT !.redo_stack = rest, !.op = "error"]
    /\ UNCHANGED << save_progress, save_in_progress, fs, inodes, tasks, last, rt, budget,
                    app, pt, lru, editor >>

\* Buffer::new, then load_file of a file that loads in rope mode
UndoInit ==
    /\ inodes = << << "a", NL >> >>
    /\ fs = [p \in AllPaths |-> IF p = DataJson THEN Some(1) ELSE None]
    /\ buf = load_file(new, DataJson)
    /\ save_progress = 0
    /\ save_in_progress = FALSE
    /\ tasks = << >>
    /\ last = Call("load_file", TRUE)
    /\ rt = Idle
    /\ budget = [edits |-> 0, saves |-> 0, reads |-> 0, loads |-> 1]
    /\ app = AppNew(<< >>)
    /\ pt = ParserThreadNew
    /\ lru = << >>
    /\ undo_stack = UndoStackNew
    /\ editor = EditorNew

UndoNext == EditInsert \/ EditDelete \/ EditReplace \/ EndGroup \/ Undo \/ Redo

UndoSpec == UndoInit /\ [][UndoNext]_vars

-----------------------------------------------------------------------------
(* Properties of the storage core.                                         *)

\* A step with budget'.edits # budget.edits is a call of insert, delete or
\* replace; last'.op is "delete_empty" for delete with start >= end.

\* the logical content: get_visible_lines over all lines
Content(b) == get_visible_lines(b, 0, line_count(b))
EditOps == {"insert", "delete", "replace"}
TaskIds == 1..Len(tasks)
Ended(i) == tasks[i].pc = "done"
IsPrefix(s, t) == Len(s) <= Len(t) /\ s = Slice(t, 0, Len(s))

\* C1: round trip.  After any edits, one save() whose background task
\* completes, finalize_save() and load_file of the saved path,
\* get_visible_lines(0, line_count()) is byte for byte what it was right
\* before save().
C1_RoundTrip ==
    (rt.phase = "reloaded" /\ Len(tasks) = 1) => Content(buf) = tasks[rt.task].shown

\* C2: a background save that failed leaves, once every save thread has ended,
\* the file at its path with the bytes it had when save() was called, the
\* progress at 0 and the in-progress flag clear.
C2_FailedSaveLeavesFile ==
    \A i \in TaskIds :
        (i = Len(tasks) /\ tasks[i].result = "err" /\ \A j \in TaskIds : Ended(j))
            => /\ FileAt(tasks[i].path) = tasks[i].before
               /\ save_progress = 0
               /\ ~save_in_progress

\* the complete contents the file at path p may hold: the content of the file
\* first loaded, and the content captured by each save() to p
Complete(p) ==
    (IF p = DataJson THEN {inodes[1]} ELSE {})
        \cup {tasks[i].content : i \in {j \in TaskIds : tasks[j].path = p /\ tasks[j].kind # "none"}}

\* C3: no torn file.  In every state, whatever the interleaving of save() and
\* save_as() calls with the steps of their threads, the file at a path holds
\* its complete first content or the complete content captured by one save().
C3_NoTornFile ==
    \A p \in UserPaths : IsSome(fs[p]) => Unwrap(FileAt(p)) \in Complete(p)

\* C4: the bytes a save thread writes are the logical content at the moment
\* save() was called: what it has written so far is a prefix of that content,
\* and all of it once the writes are over, whatever edits were made since.
C4_SaveWritesCapturedContent ==
    \A i \in TaskIds :
        tasks[i].kind # "none" =>
            /\ IsPrefix(tasks[i].wrote, tasks[i].shown)
            /\ (tasks[i].pc \in {"flush", "rename"} \/ tasks[i].result = "ok")
                   => tasks[i].wrote = tasks[i].shown

\* C4, reached: a save thread in the middle of its writes, and the last call an
\* edit that made the buffer's content differ from the captured one
C4_EditInFlight ==
    \E i \in TaskIds :
        /\ tasks[i].pc = "write" /\ tasks[i].written > 0
        /\ last.op \in EditOps /\ last.ok
        /\ ~VisiblePanics(buf, 0, line_count(buf))
        /\ Content(buf) # tasks[i].shown

\* C5: overlay precedence.  A delete on later lines (an escalation to rope mode
\* included) leaves get_line(i) and get_line_cached(i) of a line i that has an
\* overlay entry equal to that entry.
C5_OverlayPrecedence ==
    [][\A s \in Offsets, e \in Offsets : \A i \in DOMAIN buf.edits :
          (DeleteAt(s, e) /\ ~buf.use_rope /\ s < e /\ i < byte_offset_to_line(buf, s))
              => /\ get_line(buf', i) = buf.edits[i]
                 /\ get_line_cached(buf', i).ret = buf.edits[i]]_vars

\* finalize_save took effect / changed nothing of the four
Remapped ==
    /\ buf'.mmap = Some(MapFile(Unwrap(buf.path)))
    /\ save_progress' = 0
    /\ ~buf'.save_pending
    /\ ~buf'.modified
Untouched ==
    /\ buf'.mmap = buf.mmap
    /\ buf'.modified = buf.modified
    /\ buf'.save_pending = buf.save_pending
    /\ save_progress' = save_progress

\* C6 (as amended): finalize_save() called while the in-progress flag is set
\* or with no save pending changes none of the mapped view, the modified flag,
\* the pending flag and the progress; called with a save pending and the flag
\* clear it re-maps the file at the path, resets the progress and clears both
\* flags, provided the file can be opened; if it cannot, the call returns the
\* error and changes none of the four.
C6_FinalizeSaveEffect ==
    [][FinalizeSave =>
          IF buf.save_pending /\ ~save_in_progress
          THEN IF IsSome(fs[Unwrap(buf.path)])
               THEN Remapped /\ last'.ok
               ELSE Untouched /\ ~last'.ok
          ELSE Untouched /\ last'.ok]_vars

\* C6, reached: finalize_save has just re-mapped the file a save thread renamed
C6_Finalized ==
    /\ last.op = "finalize_save" /\ last.ok
    /\ rt.phase = "finalized"
    /\ buf.mmap = Some(MapFile(Unwrap(buf.path)))

\* C6 (as stated): finalize_save() called with a save pending and the flag
\* clear always re-maps, resets the progress and clears both flags.
C6_FinalizeSaveAlwaysRemaps ==
    [][FinalizeSave =>
          IF buf.save_pending /\ ~save_in_progress
          THEN IsSome(fs[Unwrap(buf.path)]) /\ Remapped
          ELSE Untouched]_vars

\* C7: in mapped mode a delete(start, end) with start and end on different
\* lines that returns Ok has switched to rope mode and removed the bytes
\* [start, end) from the content.
C7_MultiLineDeleteEscalates ==
    [][\A s \in Offsets, e \in Offsets :
          (DeleteAt(s, e) /\ ~buf.use_rope /\ s < e /\ last'.ok
             /\ byte_offset_to_line(buf, s) # byte_offset_to_line(buf, e))
              => /\ buf'.use_rope
                 /\ buf'.rope = Some(Drain(Content(buf), s, e))]_vars

\* C8: in mapped mode insert(offset, text) with offset in [0, file size] puts in
\* the overlay the entry of one line, the one holding offset: its text with
\* text inserted at offset minus the line's start; the other entries, the
\* offset table, the cache, the mapped view and the mode are unchanged.
C8_MappedInsertOneLine ==
    [][\A o \in Offsets, t \in Texts :
          (InsertAt(o, t) /\ ~buf.use_rope /\ o <= buf.file_size)
              => /\ ~buf'.use_rope
                 /\ buf'.line_offsets = buf.line_offsets
                 /\ buf'.line_cache = buf.line_cache
                 /\ buf'.mmap = buf.mmap
                 /\ \E l \in 0..SatSub(Len(buf.line_offsets), 1) :
                       /\ LineStart(buf, l) <= o
                       /\ o - LineStart(buf, l) <= Len(get_line(buf, l))
                       /\ buf'.edits = MapPut(buf.edits, l,
                              InsertStr(get_line(buf, l), o - LineStart(buf, l), t))
                       /\ get_line(buf', l) = buf'.edits[l]]_vars

\* C9: between two load_file calls a buffer in rope mode stays in rope mode,
\* whatever is called: insert, delete, replace, save, save_as, finalize_save,
\* reads.
C9_RopeModeIsKept ==
    [][(buf.use_rope /\ budget'.loads = budget.loads) => buf'.use_rope]_vars

\* C9, reached: a buffer that went from mapped mode to rope mode (it still has
\* its overlay entries), read afterwards
C9_RopeAfterEscalation ==
    buf.use_rope /\ DOMAIN buf.edits # {} /\ last.op = "get_line_cached"

\* C10 (as amended): after insert, replace, or delete with start < end returned
\* Ok, is_modified() is true; delete with start >= end returns Ok and leaves
\* the flag as it was.
C10_EditsSetModified ==
    [][(budget'.edits # budget.edits /\ last'.ok)
          => IF last'.op = "delete_empty"
             THEN is_modified(buf') = is_modified(buf)
             ELSE is_modified(buf')]_vars

\* C10, reached: a delete across lines in mapped mode that returned Ok and
\* changed nothing but the flag
C10_FlagOnly ==
    /\ last.op = "delete" /\ last.ok
    /\ ~buf.use_rope /\ DOMAIN buf.edits = {}
    /\ is_modified(buf)

\* C10 (as stated): after every insert, delete or replace that returned Ok,
\* is_modified() is true.
C10_EveryEditSetsModified ==
    [][(budget'.edits # budget.edits /\ last'.ok) => is_modified(buf')]_vars

\* the line indices and offsets the queries are asked for: all that exist, and two past
QueryLines == 0..(Max(line_count(buf), Len(buf.line_offsets)) + 1)
QueryOffsets == 0..(Max(len_bytes(buf), buf.file_size) + 2)

\* C11: byte-range reads and line reads show the same content: for every line
\* i < line_count(), slice(line_to_byte_offset(i)..line_to_byte_offset(i+1))
\* equals get_line(i), also after edits.
C11_SliceEqualsLine ==
    Loaded =>
        \A i \in 0..(line_count(buf) - 1) :
            ~GetLinePanics(buf, i) =>
                slice(buf, line_to_byte_offset(buf, i), line_to_byte_offset(buf, i + 1))
                    = get_line(buf, i)

\* C12: for every i >= line_count(), get_line(i) returns the empty string and
\* does not panic.
C12_LinePastEndIsEmpty ==
    Loaded =>
        \A i \in QueryLines :
            i >= line_count(buf) => ~GetLinePanics(buf, i) /\ get_line(buf, i) = << >>

\* C13: position queries clamp: for a non-empty buffer and every offset >=
\* len_bytes(), byte_offset_to_line(offset) is line_count() - 1; for every
\* line >= line_count(), line_to_byte_offset(line) is len_bytes().
C13_PositionQueriesClamp ==
    (Loaded /\ len_bytes(buf) > 0) =>
        /\ \A offset \in QueryOffsets :
              offset >= len_bytes(buf) => byte_offset_to_line(buf, offset) = line_count(buf) - 1
        /\ \A line \in QueryLines :
              line >= line_count(buf) => line_to_byte_offset(buf, line) = len_bytes(buf)

\* C14: for every n < line_count(), byte_offset_to_line(line_to_byte_offset(n))
\* is n, and byte_offset_to_line is non-decreasing in its argument.
C14_LineOffsetRoundTrip ==
    Loaded =>
        /\ \A n \in 0..(line_count(buf) - 1) :
              byte_offset_to_line(buf, line_to_byte_offset(buf, n)) = n
        /\ \A x \in QueryOffsets, y \in QueryOffsets :
              x <= y => byte_offset_to_line(buf, x) <= byte_offset_to_line(buf, y)

\* C14, reached: a mapped buffer of several lines with overlay entries, and a
\* buffer that went from mapped mode to rope mode
C14_BothModes ==
    /\ Loaded /\ line_count(buf) >= 3 /\ DOMAIN buf.edits # {}
    /\ buf.use_rope

\* the elements of a sequence
Range(s) == {s[i] : i \in DOMAIN s}

\* C15: in mapped mode the line cache holds at most max_cache_lines entries,
\* the cached line indices are those of the recency list, and the recency
\* list has no duplicates.
C15_CacheBound ==
    ~buf.use_rope =>
        /\ Cardinality(DOMAIN buf.line_cache) <= buf.max_cache_lines
        /\ DOMAIN buf.line_cache = Range(buf.cache_order)
        /\ Cardinality(Range(buf.cache_order)) = Len(buf.cache_order)

\* C15, reached: a read missed on a full cache and evicted the least recently
\* used line
C15_Evicted ==
    /\ ~buf.use_rope /\ Alive
    /\ last.op = "get_line_cached_evict"
    /\ Len(buf.cache_order) = buf.max_cache_lines

\* the values thread i stored before the 0 of a failure
Checkpoints(i) ==
    LET st == tasks[i].stores
    IN  IF tasks[i].result = "err" /\ Len(st) > 0 THEN SubSeq(st, 1, Len(st) - 1) ELSE st

\* C16 (as amended): the values a save thread stores in the progress counter
\* are within 0..100 and are, in order, 10, 20, non-decreasing values in 20..90
\* during the write, 90, and 100 only once the rename has succeeded; a failed
\* thread stores 0 last; while the only save runs (no load_file in between) the
\* counter holds the value stored last and the in-progress flag is set, and
\* the thread has stored its final value (100 or 0) when it clears the flag.
C16_ProgressCheckpoints ==
    \A i \in TaskIds :
        LET st == tasks[i].stores
            cp == Checkpoints(i)
        IN  /\ \A k \in 1..Len(st) : st[k] \in 0..100
            /\ \A k \in 1..(Len(cp) - 1) : cp[k] <= cp[k + 1]
            /\ Len(cp) >= 1 => cp[1] = 10
            /\ Len(cp) >= 2 => cp[2] = 20
            /\ \A k \in 3..Len(cp) :
                  \/ cp[k] \in 20..90
                  \/ cp[k] = 100 /\ k = Len(cp) /\ tasks[i].result = "ok"
            /\ tasks[i].result = "ok" => cp[Len(cp)] = 100 /\ cp[Len(cp) - 1] = 90
            /\ tasks[i].result = "err" => st[Len(st)] = 0
            /\ tasks[i].pc = "done" => st[Len(st)] \in {0, 100}
            /\ (Len(tasks) = 1 /\ budget.loads = 1
                  /\ tasks[i].pc \in {"write", "flush", "rename", "clear"})
                  => save_progress = st[Len(st)] /\ save_in_progress

\* C16, reached: the only save has ended Ok, and its thread stored a value
\* strictly between 20 and 90 during the write
C16_SaveCompleted ==
    /\ Len(tasks) = 1
    /\ tasks[1].pc = "done" /\ tasks[1].result = "ok"
    /\ \E k \in 1..Len(tasks[1].stores) : tasks[1].stores[k] \in 21..89

\* C16 (as stated): while a single save runs (save() was called with no other
\* save in flight, and none was started since), the progress counter stays
\* within 0..100 and a step of the save thread never decreases it, except for
\* the reset to 0 on failure.
C16_ProgressNeverDecreases ==
    [][\A i \in TaskIds :
          (Len(tasks') = Len(tasks) /\ tasks'[i] # tasks[i]
             /\ tasks[i].solo /\ i = Len(tasks)
             /\ \A j \in TaskIds \ {i} : Ended(j))
              => /\ save_progress' \in 0..100
                 /\ \/ save_progress' >= save_progress
                    \/ save_progress' = 0 /\ tasks'[i].result = "err"]_vars

\* the path with ".tmp" appended to its file name: data.json -> data.json.tmp
PathDotTmp(p) == [stem |-> p.stem \o "." \o p.ext, ext |-> "tmp"]
\* paths other buffers may have in the same directory
SiblingPaths == {DataJson, CopyJson, [stem |-> "data", ext |-> "txt"]}

\* C17: the temporary file of a save is at the original path with ".tmp"
\* appended; a save creates or modifies no file other than that one and the
\* original path; two buffers with different paths never share a temporary
\* path.
C17_TempPathIsPathDotTmp ==
    /\ \A i \in TaskIds :
          tasks[i].pc \in {"write", "flush", "rename"}
              => \E p \in DOMAIN fs : p = PathDotTmp(tasks[i].path) /\ fs[p] = tasks[i].fd
    /\ \A p \in DOMAIN fs :
          IsSome(fs[p]) =>
              \/ p = DataJson
              \/ \E i \in TaskIds : p \in {tasks[i].path, PathDotTmp(tasks[i].path)}
    /\ \A i \in TaskIds :
          IsSome(tasks[i].fd) =>
              \A q \in SiblingPaths : q # tasks[i].path => TempPath(q) # Temp(i)

-----------------------------------------------------------------------------
(* Properties of the structural index.                                     *)

Nodes == Index.nodes
NodeIds == 0..(Len(Nodes) - 1)
\* NodeInfo::contains
Contains(node, offset) == offset >= node.start /\ offset < node.end
Containing(offset) == {id \in NodeIds : Contains(Nodes[id + 1], offset)}
\* nodes are pushed in document order: of the nodes containing an offset the
\* one pushed last is the innermost
Last(ids) == CHOOSE id \in ids : \A other \in ids : other <= id
First(ids) == CHOOSE id \in ids : \A other \in ids : id <= other
SiblingsOf(id) == {other \in NodeIds : Nodes[other + 1].parent = Nodes[id + 1].parent}

\* C18: node containment.  In the index from_tokens builds over the token
\* stream of any text, a truncated document and one with unmatched closing
\* brackets included, every node with a parent lies within its parent:
\* parent.start <= node.start and node.end <= parent.end.
C18_NodeContainment ==
    Built =>
        \A id \in NodeIds :
            IsSome(Nodes[id + 1].parent) =>
                /\ Nodes[Unwrap(Nodes[id + 1].parent) + 1].start <= Nodes[id + 1].start
                /\ Nodes[id + 1].end <= Nodes[Unwrap(Nodes[id + 1].parent) + 1].end

\* C19: node_at(offset) returns the innermost node whose range [start, end)
\* contains offset, and None only when no node contains offset.
C19_NodeAtInnermost ==
    app.query.op = "node_at" =>
        app.query.result =
            IF Containing(app.query.arg) = {} THEN None
            ELSE Some(Nodes[Last(Containing(app.query.arg)) + 1])

\* C20: next_sibling(id) is the smallest greater id with the same parent and
\* prev_sibling(id) the greatest smaller one, None when there is none or id
\* is outside the node list; next_sibling(id) = Some(j) implies
\* prev_sibling(j) = Some(id).
C20_SiblingNavigation ==
    /\ (app.query.op = "next_sibling" /\ app.query.arg \notin NodeIds) =>
            app.query.result = None
    /\ (app.query.op = "prev_sibling" /\ app.query.arg \notin NodeIds) =>
            app.query.result = None
    /\ (app.query.op = "next_sibling" /\ app.query.arg \in NodeIds) =>
            /\ app.query.result =
                 IF {j \in SiblingsOf(app.query.arg) : j > app.query.arg} = {} THEN None
                 ELSE Some(First({j \in SiblingsOf(app.query.arg) : j > app.query.arg}))
            /\ IsSome(app.query.result) =>
                 prev_sibling(Index, Unwrap(app.query.result)) = Some(app.query.arg)
    /\ (app.query.op = "prev_sibling" /\ app.query.arg \in NodeIds) =>
            app.query.result =
                 IF {j \in SiblingsOf(app.query.arg) : j < app.query.arg} = {} THEN None
                 ELSE Some(Last({j \in SiblingsOf(app.query.arg) : j < app.query.arg}))

ScenarioAKinds == << "Object", "Key", "Number", "Key", "Array", "Number", "Number" >>

\* C21: Scenario A.  Tokenizing and indexing {"a": 1, "b": [2, 3]} yields
\* exactly seven nodes, in order Object, Key "a", Number 1, Key "b", Array,
\* Number 2, Number 3 (a key being the String node of the key's text), and
\* next_sibling of the "a" key node is the "b" key node.
C21_ScenarioA ==
    (Built /\ app.text = ScenarioA) =>
        /\ Len(Nodes) = 7
        /\ \A i \in 1..7 :
             \/ Nodes[i].kind = ScenarioAKinds[i]
             \/ (ScenarioAKinds[i] = "Key" /\ Nodes[i].kind = "String")
        /\ (app.query.op = "next_sibling" /\ app.query.arg = 1) =>
                app.query.result = Some(3)

\* C21 as the code has it: the seven nodes are Object, String "a", Number 1,
\* String "b", Array, Number 2, Number 3 (from_tokens makes no Key node);
\* next_sibling of the "a" node is the Number 1 node, and the "b" key node
\* is what next_key returns from the offset of "a".
C21_ScenarioANodes ==
    (Built /\ app.text = ScenarioA) =>
        /\ [i \in 1..Len(Nodes) |-> Nodes[i].kind] =
             << "Object", "String", "Number", "String", "Array", "Number", "Number" >>
        /\ [i \in 1..Len(Nodes) |-> Nodes[i].start] = << 0, 1, 6, 9, 14, 15, 18 >>
        /\ (app.query.op = "next_sibling" /\ app.query.arg = 1) =>
                app.query.result = Some(2)
        /\ (app.query.op = "next_key" /\ app.query.arg = 1) =>
                app.query.result = Ok(Some(3))

C21_SiblingOfA ==
    /\ Built /\ app.text = ScenarioA
    /\ app.query.op = "next_sibling" /\ app.query.arg = 1
    /\ IsSome(app.query.result)

\* the nodes whose parent is id, in increasing id order
ChildrenOf(id) ==
    LET HasParent(other) == Nodes[other + 1].parent = Some(id)
    IN  SelectSeq(IdSeq(0, Len(Nodes) - 1), HasParent)

\* C22: for every node id of an index built from any token stream, balanced
\* or with unclosed containers, children(id) is exactly the list of the
\* nodes whose parent is id, in increasing id order, and first_child(id) is
\* the first element of that list, None when the list is empty.
C22_ChildrenAreTheNodesWithParent ==
    /\ app.query.op = "children" =>
            app.query.result = Ok(ChildrenOf(app.query.arg))
    /\ app.query.op = "first_child" =>
            app.query.result =
                Ok(IF ChildrenOf(app.query.arg) = << >> THEN None
                   ELSE Some(Head(ChildrenOf(app.query.arg))))

\* the number of earlier siblings of a node
EarlierSiblings(id) == Cardinality({other \in SiblingsOf(id) : other < id})
ParentKind(id) == Nodes[Unwrap(Nodes[id + 1].parent) + 1].kind
\* a key: a String node whose parent is an Object, at an even position
IsKey(id) ==
    /\ Nodes[id + 1].kind = "String"
    /\ IsSome(Nodes[id + 1].parent)
    /\ ParentKind(id) = "Object"
    /\ EarlierSiblings(id) % 2 = 0
\* a value: a top-level node, a child of an Array, or a child of an Object
\* at an odd position
IsValue(id) ==
    \/ Nodes[id + 1].parent = None
    \/ ParentKind(id) = "Array"
    \/ ParentKind(id) = "Object" /\ EarlierSiblings(id) % 2 = 1
After(ids, offset) == {id \in ids : Nodes[id + 1].start > offset}
Before(ids, offset) == {id \in ids : Nodes[id + 1].start < offset}
FirstOf(ids) == IF ids = {} THEN None ELSE Some(First(ids))
LastOf(ids) == IF ids = {} THEN None ELSE Some(Last(ids))
Keys == {id \in NodeIds : IsKey(id)}
Values == {id \in NodeIds : IsValue(id)}

\* C23: key navigation.  next_key(offset) returns the key with the smallest
\* start strictly greater than offset, prev_key(offset) the key with the
\* greatest start strictly less than offset, None when there is none, also
\* when the enclosing object is not closed yet.
C23_KeyNavigation ==
    /\ app.query.op = "next_key" =>
            app.query.result = Ok(FirstOf(After(Keys, app.query.arg)))
    /\ app.query.op = "prev_key" =>
            app.query.result = Ok(LastOf(Before(Keys, app.query.arg)))

\* C24: value navigation.  next_value(offset) returns the value with the
\* smallest start strictly greater than offset, prev_value(offset) the value
\* with the greatest start strictly less than offset, None when there is
\* none; no node passes both the key test and the value test.
C24_ValueNavigation ==
    /\ app.query.op = "next_value" =>
            app.query.result = Ok(FirstOf(After(Values, app.query.arg)))
    /\ app.query.op = "prev_value" =>
            app.query.result = Ok(LastOf(Before(Values, app.query.arg)))
    /\ (Built /\ app.query = NoQuery) =>
            \A id \in NodeIds :
                ~(/\ KeyCheck(Index, id, "release") = "key"
                  /\ is_value_node(Index, id, "release") = "value")

Overlap(a, b) == a.start < b.end /\ b.start < a.end
SameLevel(i, j) ==
    /\ Nodes[i + 1].depth = Nodes[j + 1].depth
    /\ Nodes[i + 1].parent = Nodes[j + 1].parent

\* C25: in the index built from any token stream, two distinct nodes with
\* the same depth and the same parent never have overlapping byte ranges.
C25_SiblingsDoNotOverlap ==
    (Built /\ app.query = NoQuery) =>
        \A i \in NodeIds : \A j \in NodeIds :
            (i < j /\ SameLevel(i, j)) => ~Overlap(Nodes[i + 1], Nodes[j + 1])

\* a closed container followed by a sibling, and an unclosed one after a sibling
C25_SiblingContainers ==
    /\ Built /\ app.query = NoQuery
    /\ \E i \in NodeIds : \E j \in NodeIds :
          /\ i < j /\ SameLevel(i, j) /\ j = Len(Nodes) - 1
          /\ is_container(Nodes[i + 1]) /\ Nodes[i + 1].end > Nodes[i + 1].start + 1
          /\ is_container(Nodes[j + 1]) /\ Nodes[j + 1].end = Nodes[j + 1].start + 1

Opens == {"BraceOpen", "BracketOpen"}
Closes == {"BraceClose", "BracketClose"}

\* the nesting counter kept beside the tokens: before[k] is its value just
\* before token k, counted from the kinds of the tokens alone
CountStep(st, tokens) ==
    [next |-> st.next + 1,
     before |-> Append(st.before, st.depth),
     depth |-> IF tokens[st.next].kind \in Opens THEN st.depth + 1
               ELSE IF tokens[st.next].kind \in Closes /\ st.depth > 0 THEN st.depth - 1
               ELSE st.depth]
RECURSIVE CountRun(_, _, _)
CountRun(st, tokens, n) ==
    IF st.next > Len(tokens) \/ n = 0 THEN st
    ELSE IF n = 1 THEN CountStep(st, tokens)
    ELSE CountRun(CountRun(st, tokens, n \div 2), tokens, n - n \div 2)
DepthBefore(tokens) ==
    CountRun([next |-> 1, before |-> << >>, depth |-> 0], tokens, Len(tokens)).before

\* C26: tokenizer depth.  Every open token and every close token carries the
\* nesting depth the tokenizer had just before processing that token; the
\* counter goes up on an open token, down on a close token and never below
\* zero.
C26_TokensCarryDepthBefore ==
    (Built /\ app.query = NoQuery) =>
        \A k \in 1..Len(app.tokens) :
            app.tokens[k].kind \in Opens \cup Closes =>
                app.tokens[k].depth = DepthBefore(app.tokens)[k]

\* C26 as the code has it: an open token carries the depth before it, a
\* close token the depth after its decrement (the depth of the open token it
\* closes, 0 when there is none), every other token the current depth.
C26_TokenDepth ==
    (Built /\ app.query = NoQuery) =>
        \A k \in 1..Len(app.tokens) :
            /\ app.tokens[k].depth >= 0
            /\ app.tokens[k].depth =
                 IF app.tokens[k].kind \in Closes /\ DepthBefore(app.tokens)[k] > 0
                 THEN DepthBefore(app.tokens)[k] - 1
                 ELSE DepthBefore(app.tokens)[k]

\* a close token inside a container and one with no matching open
C26_MatchedAndUnmatchedClose ==
    /\ Built /\ app.query = NoQuery
    /\ \E k \in 1..Len(app.tokens) :
          app.tokens[k].kind \in Closes /\ DepthBefore(app.tokens)[k] > 0
    /\ \E k \in 1..Len(app.tokens) :
          app.tokens[k].kind \in Closes /\ DepthBefore(app.tokens)[k] = 0

\* the byte at 0-based position p of the text
ByteAt(p) == app.text[p + 1]
\* position p of the string that opens at start is consumed by a backslash:
\* the byte before it is a backslash inside the string that is not consumed
RECURSIVE Escaped(_, _)
Escaped(start, p) ==
    /\ p - 1 > start
    /\ ByteAt(p - 1) = "\\"
    /\ ~Escaped(start, p - 1)
ClosingQuotes(start) ==
    {p \in (start + 1)..(Len(app.text) - 1) : ByteAt(p) = "\"" /\ ~Escaped(start, p)}
QuoteTokens == {k \in 1..Len(app.tokens) : ByteAt(app.tokens[k].start) = "\""}

\* C27: string tokens.  A token that starts at a double quote ends just
\* after the first later double quote not consumed by a backslash escape,
\* each backslash consuming exactly the byte after it, and has kind String;
\* if the input ends before such a quote, also directly after a backslash,
\* the token has kind Invalid and spans to the end of the input.
C27_StringTokens ==
    (Built /\ app.query = NoQuery) =>
        \A k \in QuoteTokens :
            IF ClosingQuotes(app.tokens[k].start) = {}
            THEN /\ app.tokens[k].kind = "Invalid"
                 /\ app.tokens[k].end = Len(app.text)
            ELSE /\ app.tokens[k].kind = "String"
                 /\ app.tokens[k].end = First(ClosingQuotes(app.tokens[k].start)) + 1

\* a String token that holds an escaped quote, after a backslash pair
C27_EscapedQuote ==
    /\ Built /\ app.query = NoQuery
    /\ \E k \in QuoteTokens :
          /\ app.tokens[k].kind = "String"
          /\ \E p \in (app.tokens[k].start + 1)..(app.tokens[k].end - 2) :
                ByteAt(p) = "\"" /\ Escaped(app.tokens[k].start, p)

\* an Invalid token cut directly after a backslash
C27_CutAfterBackslash ==
    /\ Built /\ app.query = NoQuery
    /\ \E k \in QuoteTokens :
          /\ app.tokens[k].kind = "Invalid"
          /\ ByteAt(Len(app.text) - 1) = "\\"
          /\ ~Escaped(app.tokens[k].start, Len(app.text) - 1)

\* C29: whenever a call of finalize_save() clears the modified flag, the file
\* at the buffer's path holds the buffer's logical content: the flag stays
\* set when the background save failed and when an edit was made between
\* save() and finalize_save().
C29_CleanMeansSaved ==
    [][(FinalizeSave /\ is_modified(buf) /\ ~is_modified(buf'))
          => FileAt(Unwrap(buf.path)) = Some(Content(buf'))]_vars

\* C30: the delete that escalates a mapped buffer to rope mode preserves the
\* content it does not remove: every line before the first line of the deleted
\* range reads the same through get_line before and after the call, overlay
\* entries included.
C30_EscalationKeepsLines ==
    [][\A s \in Offsets, e \in Offsets : \A i \in 0..(line_count(buf) - 1) :
          (DeleteAt(s, e) /\ ~buf.use_rope /\ buf'.use_rope /\ ~buf'.panic
              /\ i < byte_offset_to_line(buf, s) /\ ~GetLinePanics(buf, i))
              => get_line(buf', i) = get_line(buf, i)]_vars

\* C31: in mapped mode, a save() whose task completed Ok followed by
\* finalize_save(), with no edit in between, leaves every line as get_line
\* returned it before save(), and no read panics.
C31_LinesSurviveSave ==
    [][(FinalizeSave /\ rt.phase = "saved" /\ rt'.phase = "finalized" /\ ~buf.use_rope)
          => \A i \in 0..(line_count(buf) - 1) :
                ~GetLinePanics(buf, i)
                    => /\ ~GetLinePanics(buf', i)
                       /\ get_line(buf', i) = get_line(buf, i)]_vars

\* the line a byte of the mapped view belongs to: the number of newline bytes
\* before it; the bytes of line i; the view with the overlaid lines replaced
LineOfByte(bytes, k) == Cardinality({j \in 1..(k - 1) : bytes[j] = NL})
LineBytes(bytes, i) ==
    LET ks == {k \in 1..Len(bytes) : LineOfByte(bytes, k) = i}
    IN  IF ks = {} THEN << >>
        ELSE SubSeq(bytes, CHOOSE k \in ks : \A j \in ks : k <= j,
                           CHOOSE k \in ks : \A j \in ks : k >= j)
OverlaidFile(b) ==
    LET bytes == MmapBytes(b)
    IN  Concat([n \in 1..(LineOfByte(bytes, Len(bytes) + 1) + 1) |->
                   IF (n - 1) \in DOMAIN b.edits THEN b.edits[n - 1]
                   ELSE LineBytes(bytes, n - 1)])

\* C32: save() or save_as() of a mapped buffer with overlay entries, whose
\* line offset table is that of the mapped view, hands the background task
\* the bytes of the view with exactly the overlaid lines replaced by their
\* overlay text, a last line without trailing newline included.
C32_OverlaySaveKeepsOtherLines ==
    [][(Len(tasks') = Len(tasks) + 1 /\ needs_overlay(buf)
            /\ buf.line_offsets = build_line_index(MmapBytes(buf)))
          => tasks'[Len(tasks')].content = OverlaidFile(buf)]_vars

\* C33: is_saving() is true as long as a background save task of the buffer
\* has not finished, a second save() issued while the first is in flight
\* included.
C33_SavingUntilAllTasksEnd ==
    (\E i \in TaskIds : ~Ended(i)) => save_in_progress

\* C34: in mapped mode line_offsets is strictly increasing, starts with 0,
\* and its other entries are exactly the offsets that follow the newline
\* bytes of the mapped view, one entry per newline byte.
C34_LineOffsetsMatchView ==
    (Alive /\ ~buf.use_rope /\ IsSome(buf.mmap)) =>
        LET offsets == buf.line_offsets
            bytes   == MmapBytes(buf)
            after   == {k \in 1..Len(bytes) : bytes[k] = NL}
        IN  /\ Len(offsets) = Cardinality(after) + 1
            /\ offsets[1] = 0
            /\ \A i \in 1..(Len(offsets) - 1) : offsets[i] < offsets[i + 1]
            /\ {offsets[i] : i \in 2..Len(offsets)} = after

\* C35: node ids are in discovery order.  Node starts increase strictly with
\* the id, a parent's id is smaller than its child's, and a node's depth is
\* its parent's depth + 1, 0 without parent, at every nesting depth.
C35_DiscoveryOrder ==
    Built =>
        \A id \in NodeIds :
            /\ id > 0 => Nodes[id].start < Nodes[id + 1].start
            /\ IF IsSome(Nodes[id + 1].parent)
               THEN /\ Unwrap(Nodes[id + 1].parent) < id
                    /\ Nodes[id + 1].depth = Nodes[Unwrap(Nodes[id + 1].parent) + 1].depth + 1
               ELSE Nodes[id + 1].depth = 0

\* the position in the log of the latest look-up of a line
LastAccess(log, line) ==
    CHOOSE k \in 1..Len(log) : log[k] = line /\ \A j \in (k + 1)..Len(log) : log[j] # line
Cached(b) == DOMAIN b.line_cache

\* C36: LRU order.  A look-up of line i leaves i cached.  A miss on a full
\* cache evicts exactly one line, the cached line whose latest look-up (hit
\* or miss) is the oldest, never i; a hit and a miss on a cache that is not
\* full evict nothing.
C36_EvictsLeastRecentlyUsed ==
    [][\A i \in Lines :
          lru' = Append(lru, i) =>
              /\ i \in Cached(buf')
              /\ Cached(buf') \ {i} \subseteq Cached(buf)
              /\ IF i \notin Cached(buf) /\ Cardinality(Cached(buf)) >= buf.max_cache_lines
                 THEN \E e \in Cached(buf) :
                        /\ Cached(buf) \ Cached(buf') = {e}
                        /\ \A c \in Cached(buf) : LastAccess(lru, e) <= LastAccess(lru, c)
                 ELSE Cached(buf) \subseteq Cached(buf')]_vars

\* C36, reached: two misses, a hit on the first line, then a miss on a third
\* line that evicts the second
C36_HitThenEvict ==
    /\ Len(lru) = 4
    /\ lru[1] = lru[3] /\ lru[2] # lru[1] /\ lru[4] \notin {lru[1], lru[2]}
    /\ Cached(buf) = {lru[1], lru[4]}
    /\ last.op = "get_line_cached_evict"

\* C37: tokenize_all ends on every input and its tokens partition the
\* input: the first starts at 0, each starts where the one before ended, none
\* is empty, and the last ends at the length of the input.
C37_TokensPartitionInput ==
    Built =>
        LET tokens == app.tokens
        IN  /\ tokens = << >> <=> app.text = << >>
            /\ tokens # << >> => /\ tokens[1].start = 0
                                 /\ tokens[Len(tokens)].end = Len(app.text)
            /\ \A i \in 1..Len(tokens) : tokens[i].start < tokens[i].end
            /\ \A i \in 1..(Len(tokens) - 1) : tokens[i + 1].start = tokens[i].end

\* C37, reached: a misspelt keyword, whose Invalid token takes the byte that
\* did not match, followed by another token
C37_MisspeltKeyword ==
    /\ Built
    /\ \E i \in 1..(Len(app.tokens) - 1) :
         /\ app.tokens[i].kind = "Invalid"
         /\ app.tokens[i].end - app.tokens[i].start >= 2
         /\ app.text[app.tokens[i].start + 1] = "t"

-----------------------------------------------------------------------------
(* Properties of the parser thread.                                        *)

Requests == 1..MaxParses
\* parse() returned Ok for request r
Accepted(r) == r <= Len(pt.accepted)
\* everything the worker has put on the response channel so far, while the
\* owner holds the receiving end
Sent == pt.received \o pt.resp
\* the responses form frames Progress(0.0) Progress* Tokens Complete, the
\* k-th frame answering the k-th request with the tokens of its content
FrameOrder(log) ==
    \A i \in 1..Len(log) :
        LET m == log[i]
            first == i = 1 \/ (i > 1 /\ log[i - 1].kind = "Complete")
        IN  /\ m.kind \in {"Progress", "Tokens", "Complete"}
            /\ m.req \in 1..Len(pt.accepted)
            /\ first => /\ m.kind = "Progress" /\ m.progress = << 0, 1 >>
                        /\ m.req = IF i = 1 THEN 1 ELSE log[i - 1].req + 1
            /\ ~first => /\ m.req = log[i - 1].req
                         /\ m.kind = "Progress" => log[i - 1].kind = "Progress"
                         /\ m.kind = "Tokens" => log[i - 1].kind = "Progress"
                         /\ m.kind = "Complete" => log[i - 1].kind = "Tokens"
            /\ m.kind = "Tokens" => m.tokens = tokenize_all(pt.accepted[m.req])
\* the owner has received Tokens and then Complete for request r
Answered(r) ==
    \E i \in 2..Len(pt.received) :
        /\ pt.received[i].kind = "Complete" /\ pt.received[i].req = r
        /\ pt.received[i - 1].kind = "Tokens" /\ pt.received[i - 1].req = r
\* the owner is neither blocked in a send or a join nor gone
Draining == pt.owner.pc = "idle"

\* C28: parser thread protocol.  The responses the worker sends, and so the
\* responses the owner receives, are for each Parse in request order
\* Progress(0.0), further Progress messages, one Tokens and one Complete,
\* never interleaved; and when the owner keeps draining responses every
\* accepted request is eventually answered by Tokens followed by Complete.
\* Accepted(r) and Answered(r) stay true once true, so the last conjunct says
\* that an accepted request is answered in every behaviour in which the
\* owner is from some point on always draining.
C28_ParserProtocol ==
    /\ [](pt.owner.pc # "dropped" => FrameOrder(Sent))
    /\ []FrameOrder(pt.received)
    /\ \A r \in Requests : Accepted(r) ~> (Answered(r) \/ ~Draining)

\* three requests answered in order, one of them with a further Progress
C28_ThreeAnswered ==
    /\ \A r \in Requests : Accepted(r) /\ Answered(r)
    /\ \E i \in 2..Len(pt.received) :
         /\ pt.received[i].kind = "Progress" /\ pt.received[i].progress # << 0, 1 >>
         /\ pt.received[i - 1].kind = "Progress"

\* the owner is inside shutdown(): sending Shutdown, or joining the worker
InShutdown ==
    \/ pt.owner.pc = "sending" /\ pt.owner.then = "joining"
    \/ pt.owner.pc = "joining"

\* C38: shutdown() always returns.  The worker receives Shutdown and ends, so
\* the join completes, also when responses to earlier Parse messages are
\* left undrained on the response channel.
C38_ShutdownReturns == InShutdown ~> pt.owner.pc = "dropped"

-----------------------------------------------------------------------------
(* Properties of undo and redo.                                            *)

\* the group undo() has just moved to the redo stack, and the group redo()
\* has just moved back
Undone == undo_stack'.redo_stack[Len(undo_stack'.redo_stack)]
Redone == undo_stack'.stack[Len(undo_stack'.stack)]

\* C39: undo and redo round trip in rope mode.  An undo() that undoes a group
\* leaves the content the buffer had before the first edit of the group, a
\* following redo() the content it had after the last edit of the group, for
\* insert, delete and replace edits; a push empties the redo stack.
C39_UndoRedoRoundTrip ==
    [][/\ (undo_stack'.op = "undo" /\ undo_stack' # undo_stack
             /\ Len(undo_stack'.redo_stack) > Len(undo_stack.redo_stack))
          => RopeText(buf') = Undone[1].before
       /\ (undo_stack'.op = "redo" /\ undo_stack' # undo_stack /\ undo_stack.op = "undo"
             /\ Len(undo_stack'.redo_stack) < Len(undo_stack.redo_stack))
          => RopeText(buf') = Redone[Len(Redone)].after
       /\ (undo_stack'.op = "push" /\ undo_stack' # undo_stack)
          => undo_stack'.redo_stack = << >>]_vars

-----------------------------------------------------------------------------
(* The editor's main loop (src/src/main.rs:975-1006) around the buffer and *)
(* its save threads.  One iteration is finalize_save, the render, the test *)
(* of should_quit, and the event polled, if any; last tells where in the   *)
(* iteration the main thread is.  When main returns the process ends, and  *)
(* the save threads end with it wherever they are.                         *)

InLoop == editor.pc = "run"
\* the main thread is at event::poll
AtPoll == InLoop /\ ~editor.should_quit /\ last.op = "finalize_save"

\* main: app.load_file(&args[1]) before the loop
RunLoad == InLoop /\ last.op = "new" /\ LoadFile

\* run: app.buffer.finalize_save() at the top of an iteration
RunFinalize == InLoop /\ last.op # "finalize_save" /\ FinalizeSave

\* run: event::poll times out, the next iteration starts
RunPollTimeout ==
    /\ AtPoll
    /\ last' = Call("poll", TRUE)
    /\ UNCHANGED << buf, save_progress, save_in_progress, fs, inodes, tasks, rt, budget,
                    app, pt, lru, undo_stack, editor >>

\* run: a key that edits the buffer, and ":w"
RunEdit == AtPoll /\ (Insert \/ Delete)
RunWrite == AtPoll /\ Save

\* ":wq" and ":x" (command.rs:48-52): ctx.buffer.save()?, then
\* InputResult::Quit, for which handle_key sets should_quit (main.rs:240-242)
CommandWq ==
    /\ AtPoll
    /\ Loaded
    /\ Spawn(buf, "wq")
    /\ editor' = IF SavePanics(buf) THEN editor
                 ELSE [editor EXCEPT !.should_quit = TRUE,
                                     !.wq = Some([modified |-> is_modified(buf),
                                                  path     |-> Unwrap(buf.path),
                                                  content  |-> Content(buf),
                                                  task     |-> Len(tasks) + 1])]
    /\ UNCHANGED << save_progress, fs, inodes, budget, app, pt, lru, undo_stack >>

\* run: should_quit is set, the loop breaks after finalize_save and the
\* render; run and main return
RunExit ==
    /\ InLoop
    /\ Alive
    /\ editor.should_quit
    /\ last.op = "finalize_save"
    /\ editor' = [editor EXCEPT !.pc = "exited"]
    /\ UNCHANGED << BufferVars, app, pt, lru, undo_stack >>

\* a step of a save thread of the running process
RunTask == InLoop /\ TaskStep

QuitNext ==
    \/ RunLoad \/ RunFinalize \/ RunPollTimeout \/ RunEdit \/ RunWrite
    \/ CommandWq \/ RunExit \/ RunTask

QuitSpec == Init /\ [][QuitNext]_vars

-----------------------------------------------------------------------------
(* Properties of the main loop.                                            *)

AtWq == Unwrap(editor.wq)
Exited == editor.pc = "exited"

\* C40: after ":wq" or ":x" on a modified buffer with a path the editor
\* does not exit before the save task the command started has finished, and
\* when the process has ended the file at the path holds the buffer's content
\* at the time of the command.
C40_WqSavesBeforeExit ==
    (Exited /\ IsSome(editor.wq) /\ AtWq.modified)
        => /\ Ended(AtWq.task)
           /\ FileAt(AtWq.path) = Some(AtWq.content)

=============================================================================
